---- MODULE Spec2Model ----
(***************************************************************************)
(* A model of the evaluator of lisp_interpreter.py / lisp_builtins.py:     *)
(* the eval/apply core, the frame chain, the procedure variants, the       *)
(* special forms, the tail-call trampoline, promises, and the              *)
(* read-eval-print loop that drives them.                                  *)
(*                                                                         *)
(* Python objects that are mutable and shared (Frame, Promise) live in     *)
(* heaps indexed by a number; every other value is a tagged record.  The   *)
(* evaluator is a family of recursive operators that thread the heaps      *)
(* through (the record "st") and return a result record: either a value    *)
(* or a raised exception with its Python class and message.                *)
(***************************************************************************)
EXTENDS Integers, Sequences, FiniteSets, TLC

VARIABLES
    frames,     \* heap of Frame objects; frames[1] is the global frame
    promises,   \* heap of Promise objects
    session,    \* the expressions next_line/lisp_read will deliver, in order
    pos,        \* number of expressions read so far
    status,     \* "running" | "returned" | "crashed" (uncaught host exception)
    results     \* one record per expression read: outcome, depth, trace

vars == <<frames, promises, session, pos, status, results>>

(***************************************************************************)
(* Bounds of the model.                                                    *)
(***************************************************************************)
\* host recursion limit, counted in nested activations of the evaluator
MaxDepth == 6
\* longest chain of tail calls / deepest non-tail recursion the sessions ask for
MaxLoop == 3

\* the largest number of operands of the and / or forms of the sessions
MaxOperands == 3
\* the largest number of clauses of the cond forms of the sessions
MaxClauses == 3
\* the largest number of formals and of arguments of the calls that count them
MaxFormals == 3
\* the largest number of elements of the lists the sessions quasiquote
MaxItems == 2

(***************************************************************************)
(* Values.  Every value carries a tag t; each tag has its own field names, *)
(* so two values are equal exactly when they are the same Python value     *)
(* (pairs are compared structurally, as Pair.__eq__ does).                 *)
(***************************************************************************)
None == [t |-> "none"]
nil == [t |-> "nil"]
Bool(b) == [t |-> "bool", b |-> b]
Integer(n) == [t |-> "int", n |-> n]
Float(num, den) == [t |-> "real", num |-> num, den |-> den]
Sym(s) == [t |-> "sym", s |-> s]
Pair(first, second) == [t |-> "pair", first |-> first, second |-> second]
FrameRef(i) == [t |-> "frame", fid |-> i]
PromiseRef(i) == [t |-> "promise", pid |-> i]
Thunk(expr, env) == [t |-> "thunk", expr |-> expr, tenv |-> env]
BuiltinProcedure(name) == [t |-> "builtin", name |-> name]
LambdaProcedure(formals, body, env) ==
    [t |-> "lambda", formals |-> formals, body |-> body, env |-> env]
MacroProcedure(formals, body, env) ==
    [t |-> "macro", formals |-> formals, body |-> body, env |-> env]
MuProcedure(formals, body) == [t |-> "mu", mformals |-> formals, mbody |-> body]

\* the formals / body of a user procedure of any variant
FormalsOf(p) == IF p.t = "mu" THEN p.mformals ELSE p.formals
BodyOf(p) == IF p.t = "mu" THEN p.mbody ELSE p.body

Max(a, b) == IF a >= b THEN a ELSE b

\* a lisp list from a sequence of values, and back
RECURSIVE SeqToList(_)
SeqToList(s) == IF s = <<>> THEN nil ELSE Pair(Head(s), SeqToList(Tail(s)))
L(s) == SeqToList(s)

RECURSIVE ListToSeq(_)
ListToSeq(x) == IF x.t = "pair" THEN <<x.first>> \o ListToSeq(x.second) ELSE <<>>

(***************************************************************************)
(* Type predicates of lisp_builtins.py.                                    *)
(***************************************************************************)
lisp_booleanp(x) == x.t = "bool"
lisp_truep(val) == ~(val.t = "bool" /\ val.b = FALSE)
\* Variant for C9: the number 0 counts as false too, as it does in the host
ZeroIsFalse(val) ==
    \/ val.t = "bool" /\ val.b = FALSE
    \/ val.t = "int" /\ val.n = 0
lisp_falsep(val) == val.t = "bool" /\ val.b = FALSE
lisp_pairp(x) == x.t = "pair"
lisp_nullp(x) == x.t = "nil"
lisp_promisep(x) == x.t = "promise"
lisp_symbolp(x) == x.t = "sym"
lisp_numberp(x) == x.t \in {"int", "real"}
lisp_atomp(x) == x.t \in {"bool", "int", "real", "sym", "nil"}
lisp_procedurep(x) == x.t \in {"builtin", "lambda", "macro", "mu"}

RECURSIVE lisp_listp(_)
lisp_listp(x) ==
    IF x.t = "nil" THEN TRUE
    ELSE IF x.t # "pair" THEN FALSE
    ELSE lisp_listp(x.second)

\* len() of a proper lisp list (Pair.__len__, nil.__len__)
RECURSIVE PairLen(_)
PairLen(x) == IF x.t = "pair" THEN 1 + PairLen(x.second) ELSE 0

self_evaluating(expr) ==
    (lisp_atomp(expr) /\ ~lisp_symbolp(expr)) \/ expr.t = "none"

(***************************************************************************)
(* The interpreter state threaded through an evaluation, and the result of *)
(* a host function: a returned value or a raised exception.                *)
(*   st.frames, st.promises : the heaps                                    *)
(*   st.trace : what happened, in order (observation only)                 *)
(*   st.maxd  : deepest nesting of evaluator activations reached           *)
(*   st.limit : the host recursion limit was hit                           *)
(*   st.out   : what print wrote                                           *)
(***************************************************************************)
Val(v, st) == [k |-> "val", v |-> v, cls |-> "", msg |-> "", st |-> st]
Raise(cls, msg, st) == [k |-> "exc", v |-> None, cls |-> cls, msg |-> msg, st |-> st]

Event(ev, a, b, d, v) == [ev |-> ev, a |-> a, b |-> b, d |-> d, v |-> v]
Log(st, e) == [st EXCEPT !.trace = Append(@, e)]

\* the state after special form FORM applied lisp_truep / lisp_falsep to the
\* value of r; last: r is the final operand of an and / or
Tested(form, r, last, d) ==
    Log(r.st, Event("test", Sym(form), Bool(last), d, r.v))

\* the state after a define form bound SYMBOL to VALUE in ENV: Frame.define
\* turned the frames of BEFORE into those of AFTER
Defined(symbol, env, value, before, after, d) ==
    Log(after, Event("define", symbol, env, d,
                     [value |-> value, before |-> before.frames,
                      after |-> after.frames]))

(***************************************************************************)
(* Frame (lisp_interpreter.py, class Frame).  bindings is a function from  *)
(* symbol names to values; parent is a frame reference or None.            *)
(***************************************************************************)
IsFrame(env) == env.t = "frame"

NewFrame(parent) == [bindings |-> <<>>, parent |-> parent]

Bound(f, s) == s \in DOMAIN f.bindings

\* Variant for C15: the binding is changed where the symbol is bound already,
\* in ENV or the nearest ancestor that binds it
DefineWhereBound(env, symbol, value, st) ==
    LET bound == {i \in 1..Len(st.frames) : symbol.s \in DOMAIN st.frames[i].bindings}
        Writes(fid, b) == Val(None, [st EXCEPT !.frames[fid].bindings = b])
        Assign(fid) ==
            Writes(fid, [x \in (DOMAIN st.frames[fid].bindings) \cup {symbol.s} |->
                            IF x = symbol.s THEN value
                            ELSE st.frames[fid].bindings[x]])
        Up[n \in 0..Len(st.frames)] ==
            \* the frame n steps up the parent chain of env (0 when there is none)
            IF n = 0 THEN env.fid
            ELSE IF Up[n - 1] = 0 \/ st.frames[Up[n - 1]].parent.t = "none" THEN 0
            ELSE st.frames[Up[n - 1]].parent.fid
        hits == {n \in 0..Len(st.frames) : Up[n] \in bound}
    IN IF ~IsFrame(env)
       THEN Raise("AttributeError", "object has no attribute 'bindings'", st)
       ELSE IF hits = {} THEN Assign(env.fid)
       ELSE Assign(Up[CHOOSE n \in hits : \A m \in hits : n <= m])

\* Frame.define: self.bindings[symbol] = value
Frame_define(env, symbol, value, st) ==
    IF ~IsFrame(env)
    THEN Raise("AttributeError", "object has no attribute 'bindings'", st)
    ELSE LET f == st.frames[env.fid]
             b == [x \in (DOMAIN f.bindings) \cup {symbol.s} |->
                      IF x = symbol.s THEN value ELSE f.bindings[x]]
         IN Val(None, [st EXCEPT !.frames[env.fid].bindings = b])

\* Frame.lookup: nearest enclosing binding, else lispError
RECURSIVE Frame_lookup(_, _, _)
Frame_lookup(env, symbol, st) ==
    IF ~IsFrame(env)
    THEN Raise("AttributeError", "object has no attribute 'lookup'", st)
    ELSE LET f == st.frames[env.fid]
         IN IF Bound(f, symbol.s) THEN Val(f.bindings[symbol.s], st)
            ELSE IF f.parent.t # "none" THEN Frame_lookup(f.parent, symbol, st)
            ELSE Raise("lispError", "unknown identifier: " \o symbol.s, st)

\* Python len() of what make_child_frame is handed: a lisp list has its
\* length, a str (a symbol) has the length of its name, anything else has
\* no len()
HasLen(x) == lisp_listp(x) \/ x.t = "sym"
PyLen(x) == IF x.t = "sym" THEN Len(x.s) ELSE PairLen(x)

\* the loop of make_child_frame over a proper list of formals
RECURSIVE BindAll(_, _, _, _)
BindAll(new_env, formals, vals, st) ==
    IF formals.t # "pair" THEN Val(new_env, st)
    ELSE LET r == Frame_define(new_env, formals.first, vals.first, st)
         IN BindAll(new_env, formals.second, vals.second, r.st)

\* Variant for C16: the lengths are not compared; formals are bound to vals
\* pairwise until either list ends
RECURSIVE BindPairwise(_, _, _, _)
BindPairwise(new_env, formals, vals, st) ==
    IF formals.t # "pair" \/ vals.t # "pair" THEN Val(new_env, st)
    ELSE BindPairwise(new_env, formals.second, vals.second,
                      Frame_define(new_env, formals.first, vals.first, st).st)

UncountedChildFrame(self, formals, vals, st) ==
    BindPairwise(FrameRef(Len(st.frames) + 1), formals, vals,
                 [st EXCEPT !.frames = Append(@, NewFrame(self))])

\* Frame.make_child_frame
make_child_frame(self, formals, vals, st) ==
    IF ~HasLen(formals) \/ ~HasLen(vals)
    THEN Raise("TypeError", "object has no len()", st)
    ELSE IF PyLen(formals) # PyLen(vals)
    THEN Raise("lispError", "Too many or too few vals are given.", st)
    ELSE IF PyLen(formals) > 0 /\ (formals.t # "pair" \/ vals.t # "pair")
    THEN Raise("AttributeError", "object has no attribute 'first'", st)
    ELSE LET id == Len(st.frames) + 1
             st1 == [st EXCEPT !.frames = Append(@, NewFrame(self))]
         IN BindAll(FrameRef(id), formals, vals, st1)

(***************************************************************************)
(* Checks on the structure of programs.                                    *)
(***************************************************************************)
\* check_form's default max=float('inf'): a maximum no length exceeds
NoMax(expr) == PairLen(expr)

\* check_form: "" when EXPR is a proper list of min..max elements, else the
\* message of the lispError it raises
check_form(expr, min, max) ==
    IF ~lisp_listp(expr) THEN "badly formed expression: "
    ELSE IF PairLen(expr) < min THEN "too few operands in form"
    ELSE IF PairLen(expr) > max THEN "too many operands in form"
    ELSE ""

\* the while loop of check_formals, with the set of symbols seen so far
RECURSIVE check_formals_loop(_, _)
check_formals_loop(formals, symbols) ==
    IF formals.t # "pair" THEN ""
    ELSE IF ~lisp_symbolp(formals.first) THEN "non-symbol: "
    ELSE IF formals.first.s \in symbols THEN "duplicate symbol: " \o formals.first.s
    ELSE check_formals_loop(formals.second, symbols \cup {formals.first.s})

\* check_formals: "" when it returns, else the message of its lispError
check_formals(formals) == check_formals_loop(formals, {})

\* check_procedure
check_procedure(procedure) ==
    IF ~lisp_procedurep(procedure) THEN "is not callable: " ELSE ""

(***************************************************************************)
(* Promise (class Promise).  A promise object holds expression, env and,   *)
(* once set, value; nevals counts the evaluations of its expression that   *)
(* returned a value (observation only).                                    *)
(***************************************************************************)
NewPromise(expression, env) ==
    [expression |-> expression, env |-> env, hasvalue |-> FALSE,
     value |-> None, nevals |-> 0]

\* Promise.__str__: forced iff expression is None
PromiseForced(p) == p.expression.t = "none"

(***************************************************************************)
(* Which built-ins are registered with use_env=True (create_global_frame). *)
(***************************************************************************)
UseEnv == {"eval", "apply", "load", "map", "filter", "reduce"}

SPECIAL_FORMS ==
    {"and", "begin", "cond", "define", "if", "lambda", "let", "or", "quote",
     "define-macro", "quasiquote", "unquote", "mu", "cons-stream", "delay"}

(***************************************************************************)
(* Procedure variants: the frame a call evaluates its body in.             *)
(***************************************************************************)
\* obj.make_child_frame(...) is a method call: obj must be a Frame
Method_make_child_frame(obj, formals, vals, st) ==
    IF ~IsFrame(obj)
    THEN Raise("AttributeError", "object has no attribute 'make_child_frame'", st)
    ELSE make_child_frame(obj, formals, vals, st)

\* Variant for C1: the call frame is a child of the caller's environment
DynamicLambdaFrame(self, args, env, st) ==
    Method_make_child_frame(env, self.formals, args, st)

\* Variant for C2: the call frame is a child of the global frame
GlobalMuFrame(self, args, env, st) ==
    make_child_frame(FrameRef(1), self.mformals, args, st)

\* LambdaProcedure.make_call_frame (MacroProcedure inherits it)
LambdaProcedure_make_call_frame(self, args, env, st) ==
    Method_make_child_frame(self.env, self.formals, args, st)

\* MuProcedure.make_call_frame
MuProcedure_make_call_frame(self, args, env, st) ==
    make_child_frame(env, self.mformals, args, st)

make_call_frame(procedure, args, env, st) ==
    IF procedure.t = "mu"
    THEN MuProcedure_make_call_frame(procedure, args, env, st)
    ELSE LambdaProcedure_make_call_frame(procedure, args, env, st)

(***************************************************************************)
(* Eval / apply and the trampoline.  The parameter d is the number of      *)
(* activations of the evaluator (optimized_eval) on the host stack around  *)
(* the call.                                                               *)
(***************************************************************************)
RECURSIVE optimized_eval(_, _, _, _, _)
RECURSIVE Trampoline(_, _, _, _)
RECURSIVE original_lisp_eval(_, _, _, _)
RECURSIVE EvalOperands(_, _, _, _, _)
RECURSIVE lisp_apply(_, _, _, _, _)
RECURSIVE eval_all(_, _, _, _)
RECURSIVE complete_apply(_, _, _, _, _)
RECURSIVE BuiltinProcedure_apply(_, _, _, _, _)
RECURSIVE CallBuiltin(_, _, _, _)
RECURSIVE DoSpecialForm(_, _, _, _, _)
RECURSIVE do_and_form(_, _, _, _)
RECURSIVE do_or_form(_, _, _, _)
RECURSIVE do_cond_form(_, _, _, _)
RECURSIVE make_let_loop(_, _, _, _, _, _)
RECURSIVE quasiquote_item(_, _, _, _, _)
RECURSIVE Promise_evaluate(_, _, _)
RECURSIVE map_loop(_, _, _, _, _)
RECURSIVE filter_loop(_, _, _, _, _)
RECURSIVE reduce_loop(_, _, _, _, _, _)

\* Variant for C3: a tail request is never answered with a Thunk
NeverThunk(expr, tail) == FALSE

\* the test of optimized_eval that answers a tail request with a Thunk
ReturnsThunk(expr, tail) ==
    tail /\ ~lisp_symbolp(expr) /\ ~self_evaluating(expr)

\* optimize_tail_calls.optimized_eval, the name lisp_eval is bound to
optimized_eval(expr, env, tail, st, d) ==
    CASE d + 1 > MaxDepth ->
           Raise("RuntimeError", "maximum recursion depth exceeded",
                 [st EXCEPT !.limit = TRUE])
      [] ReturnsThunk(expr, tail) ->
           Val(Thunk(expr, env), [st EXCEPT !.maxd = Max(@, d + 1)])
      [] OTHER ->
           Trampoline(original_lisp_eval(expr, env,
                          [st EXCEPT !.maxd = Max(@, d + 1)], d + 1),
                      expr, env, d + 1)

\* the while loop of optimized_eval and its return: result is what
\* original_lisp_eval gave for the Thunk before, expr and env are the
\* arguments of the activation
Trampoline(result, expr, env, d) ==
    CASE result.k = "exc" -> result
      [] result.v.t = "thunk" ->
           Trampoline(original_lisp_eval(result.v.expr, result.v.tenv, result.st, d),
                      expr, env, d)
      [] OTHER -> Val(result.v, Log(result.st, Event("ret", expr, env, d, result.v)))

\* rest.map(helper) in lisp_eval: the operands, left to right; args holds
\* the values of the operands before rest
EvalOperands(rest, args, env, st, d) ==
    LET r == optimized_eval(rest.first, env, FALSE, st, d)
    IN CASE rest.t # "pair" -> Val(L(args), st)
         [] r.k = "exc" -> r
         [] OTHER -> EvalOperands(rest.second, Append(args, r.v), env, r.st, d)

\* Variant for C5: the operands are evaluated and the macro applied to
\* their values
ApplyMacroToValues(self, operands, env, st, d) ==
    LET args == EvalOperands(operands, <<>>, env, st, d)
    IN IF args.k = "exc" THEN args
       ELSE complete_apply(self, args.v, env, args.st, d)

\* MacroProcedure.apply_macro
apply_macro(self, operands, env, st, d) == complete_apply(self, operands, env, st, d)

\* first is the name of a special form
IsSpecialForm(first) == lisp_symbolp(first) /\ first.s \in SPECIAL_FORMS

\* the lisp_eval of the source, before it is wrapped
original_lisp_eval(expr, env, st0, d) ==
    LET st == Log(st0, Event("eval", expr, env, d, None))
        first == expr.first
        rest == expr.second
        procedure == optimized_eval(first, env, FALSE, st, d)
        expansion == apply_macro(procedure.v, rest, env, procedure.st, d)
        args == EvalOperands(rest, <<>>, env, procedure.st, d)
    IN CASE lisp_symbolp(expr) -> Frame_lookup(env, expr, st)
         [] self_evaluating(expr) -> Val(expr, st)
         [] ~lisp_listp(expr) -> Raise("lispError", "malformed list: ", st)
         [] IsSpecialForm(first) -> DoSpecialForm(first.s, rest, env, st, d)
         [] procedure.k = "exc" -> procedure
         [] check_procedure(procedure.v) # "" ->
              Raise("lispError", check_procedure(procedure.v), procedure.st)
         [] procedure.v.t = "macro" /\ expansion.k = "exc" -> expansion
         [] procedure.v.t = "macro" ->
              optimized_eval(expansion.v, env, FALSE, expansion.st, d)
         [] args.k = "exc" -> args
         [] OTHER -> lisp_apply(procedure.v, args.v, env, args.st, d)

lisp_apply(procedure, args, env, st, d) ==
    LET \* new_env = procedure.make_call_frame(args, env);
        \* return eval_all(procedure.body, new_env)
        InFrame(frame) ==
            IF frame.k = "exc" THEN frame
            ELSE eval_all(BodyOf(procedure), frame.v,
                          Log(frame.st, Event("apply", procedure, env, d, frame.v)), d)
    IN CASE check_procedure(procedure) # "" ->
              Raise("lispError", check_procedure(procedure), st)
         [] procedure.t = "builtin" ->
              BuiltinProcedure_apply(procedure, args, env, st, d)
         [] OTHER -> InFrame(make_call_frame(procedure, args, env, st))

eval_all(expressions, env, st, d) ==
    LET r == optimized_eval(expressions.first, env, FALSE, st, d)
    IN CASE expressions.t = "nil" -> Val(None, st)
         [] PairLen(expressions) = 1 ->
              optimized_eval(expressions.first, env, TRUE, st, d)
         [] r.k = "exc" -> r
         [] OTHER -> eval_all(expressions.second, env, r.st, d)

\* Variant for C4: the result of lisp_apply is returned as it is
ApplyWithoutUnwrap(procedure, args, env, st, d) ==
    LET Completed(val) ==
            IF val.k = "exc" THEN val
            ELSE Val(val.v, Log(val.st, Event("complete_apply", procedure, args, d, val.v)))
    IN Completed(lisp_apply(procedure, args, env, st, d))

complete_apply(procedure, args, env, st, d) ==
    LET Completed(r) ==
            IF r.k = "exc" THEN r
            ELSE Val(r.v, Log(r.st, Event("complete_apply", procedure, args, d, r.v)))
        \* if isinstance(val, Thunk): return lisp_eval(val.expr, val.env)
        Unwrap(val) ==
            CASE val.k = "exc" -> val
              [] val.v.t # "thunk" -> Completed(val)
              [] OTHER ->
                   Completed(optimized_eval(val.v.expr, val.v.tenv, FALSE, val.st, d))
    IN Unwrap(lisp_apply(procedure, args, env, st, d))

(***************************************************************************)
(* Special forms.  Each takes the cdr of the form and the environment.     *)
(***************************************************************************)
do_lambda_form(expressions, env, st, d) ==
    LET formals == expressions.first
    IN CASE check_form(expressions, 2, NoMax(expressions)) # "" ->
              Raise("lispError", check_form(expressions, 2, NoMax(expressions)), st)
         [] check_formals(formals) # "" ->
              Raise("lispError", check_formals(formals), st)
         [] OTHER -> Val(LambdaProcedure(formals, expressions.second, env), st)

do_mu_form(expressions, env, st, d) ==
    LET formals == expressions.first
    IN CASE check_form(expressions, 2, NoMax(expressions)) # "" ->
              Raise("lispError", check_form(expressions, 2, NoMax(expressions)), st)
         [] check_formals(formals) # "" ->
              Raise("lispError", check_formals(formals), st)
         [] OTHER -> Val(MuProcedure(formals, expressions.second), st)

\* Variant for C14: the symbol is bound (to None) before its value expression
\* is evaluated, and rebound to the value afterwards
DefineBeforeEval(expressions, env, st, d) ==
    LET target == expressions.first
        Bind(r) == IF r.k = "exc" THEN r
                   ELSE Val(target, Frame_define(env, target, r.v, r.st).st)
        Proc(lambd_a) ==
            IF lambd_a.k = "exc" THEN lambd_a
            ELSE Val(target.first,
                     Frame_define(env, target.first, lambd_a.v, lambd_a.st).st)
    IN CASE check_form(expressions, 2, NoMax(expressions)) # "" ->
              Raise("lispError", check_form(expressions, 2, NoMax(expressions)), st)
         [] lisp_symbolp(target) /\ check_form(expressions, 2, 2) # "" ->
              Raise("lispError", check_form(expressions, 2, 2), st)
         [] lisp_symbolp(target) ->
              Bind(optimized_eval(expressions.second.first, env, FALSE,
                                  Frame_define(env, target, None, st).st, d))
         [] ~(target.t = "pair" /\ lisp_symbolp(target.first)) ->
              Raise("lispError", "non-symbol: ", st)
         [] OTHER ->
              Proc(do_lambda_form(Pair(target.second, expressions.second), env, st, d))

do_define_form(expressions, env, st, d) ==
    LET target == expressions.first
        r == optimized_eval(expressions.second.first, env, FALSE, st, d)
        b == Frame_define(env, target, r.v, r.st)
        lambd_a == do_lambda_form(Pair(target.second, expressions.second), env, st, d)
        bl == Frame_define(env, target.first, lambd_a.v, lambd_a.st)
    IN CASE check_form(expressions, 2, NoMax(expressions)) # "" ->
              Raise("lispError", check_form(expressions, 2, NoMax(expressions)), st)
         [] lisp_symbolp(target) /\ check_form(expressions, 2, 2) # "" ->
              Raise("lispError", check_form(expressions, 2, 2), st)
         [] lisp_symbolp(target) /\ r.k = "exc" -> r
         [] lisp_symbolp(target) /\ b.k = "exc" -> b
         [] lisp_symbolp(target) ->
              Val(target, Defined(target, env, r.v, r.st, b.st, d))
         [] ~(target.t = "pair" /\ lisp_symbolp(target.first)) ->
              Raise("lispError", "non-symbol: ", st)
         [] lambd_a.k = "exc" -> lambd_a
         [] bl.k = "exc" -> bl
         [] OTHER ->
              Val(target.first,
                  Defined(target.first, env, lambd_a.v, lambd_a.st, bl.st, d))

do_quote_form(expressions, env, st, d) ==
    IF check_form(expressions, 1, 1) # ""
    THEN Raise("lispError", check_form(expressions, 1, 1), st)
    ELSE Val(expressions.first, st)

do_begin_form(expressions, env, st, d) ==
    IF check_form(expressions, 1, NoMax(expressions)) # ""
    THEN Raise("lispError", check_form(expressions, 1, NoMax(expressions)), st)
    ELSE eval_all(expressions, env, st, d)

do_if_form(expressions, env, st, d) ==
    LET c == optimized_eval(expressions.first, env, FALSE, st, d)
    IN CASE check_form(expressions, 2, 3) # "" ->
              Raise("lispError", check_form(expressions, 2, 3), st)
         [] c.k = "exc" -> c
         [] lisp_truep(c.v) ->
              optimized_eval(expressions.second.first, env, TRUE,
                             Tested("if", c, FALSE, d), d)
         [] PairLen(expressions) = 3 ->
              optimized_eval(expressions.second.second.first, env, TRUE,
                             Tested("if", c, FALSE, d), d)
         [] OTHER -> Val(None, Tested("if", c, FALSE, d))

\* the last operand is evaluated with tail=True, so evaled may be a Thunk;
\* lisp_falsep of a Thunk is False and the Thunk is returned either way
do_and_form(expressions, env, st, d) ==
    LET evaled == optimized_eval(expressions.first, env,
                                 PairLen(expressions) = 1, st, d)
    IN CASE PairLen(expressions) = 0 -> Val(Bool(TRUE), st)
         [] evaled.k = "exc" -> evaled
         [] lisp_falsep(evaled.v) \/ PairLen(expressions) = 1 ->
              Val(evaled.v, Tested("and", evaled, PairLen(expressions) = 1, d))
         [] OTHER -> do_and_form(expressions.second, env,
                                 Tested("and", evaled, FALSE, d), d)

do_or_form(expressions, env, st, d) ==
    LET evaled == optimized_eval(expressions.first, env,
                                 PairLen(expressions) = 1, st, d)
    IN CASE PairLen(expressions) = 0 -> Val(Bool(FALSE), st)
         [] evaled.k = "exc" -> evaled
         [] lisp_truep(evaled.v) \/ PairLen(expressions) = 1 ->
              Val(evaled.v, Tested("or", evaled, PairLen(expressions) = 1, d))
         [] OTHER -> do_or_form(expressions.second, env,
                                Tested("or", evaled, FALSE, d), d)

\* clause.first == 'else'
IsElse(x) == x.t = "sym" /\ x.s = "else"

do_cond_form(expressions, env, st, d) ==
    LET clause == expressions.first
        test == IF IsElse(clause.first) THEN Val(Bool(TRUE), st)
                ELSE optimized_eval(clause.first, env, FALSE, st, d)
    IN CASE expressions.t = "nil" -> Val(None, st)
         [] check_form(clause, 1, NoMax(clause)) # "" ->
              Raise("lispError", check_form(clause, 1, NoMax(clause)), st)
         [] IsElse(clause.first) /\ expressions.second.t # "nil" ->
              Raise("lispError", "else must be last", st)
         [] test.k = "exc" -> test
         [] lisp_truep(test.v) /\ PairLen(clause) = 1 ->
              Val(test.v, Tested("cond", test, FALSE, d))
         [] lisp_truep(test.v) ->
              eval_all(clause.second, env, Tested("cond", test, FALSE, d), d)
         [] OTHER -> do_cond_form(expressions.second, env,
                                  Tested("cond", test, FALSE, d), d)

\* the for loop of make_let_frame: formal and val are built in reverse
make_let_loop(bindings, formal, val, env, st, d) ==
    LET r == optimized_eval(bindings.first.second.first, env, FALSE, st, d)
    IN CASE bindings.t # "pair" -> Val(Pair(formal, val), st)
         [] check_form(bindings.first, 2, 2) # "" ->
              Raise("lispError", check_form(bindings.first, 2, 2), st)
         [] r.k = "exc" -> r
         [] OTHER -> make_let_loop(bindings.second, Pair(bindings.first.first, formal),
                                   Pair(r.v, val), env, r.st, d)

make_let_frame(bindings, env, st, d) ==
    LET fv == make_let_loop(bindings, nil, nil, env, st, d)
    IN CASE ~lisp_listp(bindings) ->
              Raise("lispError", "bad bindings list in let form", st)
         [] fv.k = "exc" -> fv
         [] check_formals(fv.v.first) # "" ->
              Raise("lispError", check_formals(fv.v.first), fv.st)
         [] OTHER -> Method_make_child_frame(env, fv.v.first, fv.v.second, fv.st)

do_let_form(expressions, env, st, d) ==
    LET let_env == make_let_frame(expressions.first, env, st, d)
    IN CASE check_form(expressions, 2, NoMax(expressions)) # "" ->
              Raise("lispError", check_form(expressions, 2, NoMax(expressions)), st)
         [] let_env.k = "exc" -> let_env
         [] OTHER -> eval_all(expressions.second, let_env.v, let_env.st, d)

do_define_macro(expressions, env, st, d) ==
    IF check_form(expressions, 2, NoMax(expressions)) # ""
    THEN Raise("lispError", check_form(expressions, 2, NoMax(expressions)), st)
    ELSE
    LET target == expressions.first
    IN
    IF target.t = "pair" /\ lisp_symbolp(target.first)
    THEN LET body == expressions.second
             formals == target.second
         IN IF check_formals(formals) # ""
            THEN Raise("lispError", check_formals(formals), st)
            ELSE LET macro == MacroProcedure(formals, body, env)
                     b == Frame_define(env, target.first, macro, st)
                 IN IF b.k = "exc" THEN b
                    ELSE Val(target.first,
                             [b.st EXCEPT !.out = Append(@, [s |-> "DEBUG: IS A MACRO? True", v |-> None])])
    ELSE Raise("lispError", "", st)

IsWord(x, w) == x.t = "sym" /\ x.s = w

\* Variant for C17: a nested quasiquote does not raise the level
FlatQuasiquote(val, env, level, st, d) ==
    LET expressions == val.second
        lv == IF IsWord(val.first, "unquote") THEN level - 1 ELSE level
        Second(first, second) ==
            IF second.k = "exc" THEN second ELSE Val(Pair(first.v, second.v), second.st)
        First(first) ==
            IF first.k = "exc" THEN first
            ELSE Second(first, quasiquote_item(val.second, env, lv, first.st, d))
    IN CASE ~lisp_pairp(val) -> Val(val, st)
         [] IsWord(val.first, "unquote") /\ lv = 0
                /\ check_form(expressions, 1, 1) # "" ->
              Raise("lispError", check_form(expressions, 1, 1), st)
         [] IsWord(val.first, "unquote") /\ lv = 0 ->
              optimized_eval(expressions.first, env, FALSE, st, d)
         [] OTHER -> First(quasiquote_item(val.first, env, lv, st, d))

quasiquote_item(val, env, level, st, d) ==
    LET expressions == val.second
        lv == IF IsWord(val.first, "unquote") THEN level - 1
              ELSE IF IsWord(val.first, "quasiquote") THEN level + 1
              ELSE level
        first == quasiquote_item(val.first, env, lv, st, d)
        second == quasiquote_item(val.second, env, lv, first.st, d)
    IN CASE ~lisp_pairp(val) -> Val(val, st)
         [] IsWord(val.first, "unquote") /\ lv = 0
                /\ check_form(expressions, 1, 1) # "" ->
              Raise("lispError", check_form(expressions, 1, 1), st)
         [] IsWord(val.first, "unquote") /\ lv = 0 ->
              optimized_eval(expressions.first, env, FALSE, st, d)
         [] first.k = "exc" -> first
         [] second.k = "exc" -> second
         [] OTHER -> Val(Pair(first.v, second.v), second.st)

do_quasiquote_form(expressions, env, st, d) ==
    IF check_form(expressions, 1, 1) # ""
    THEN Raise("lispError", check_form(expressions, 1, 1), st)
    ELSE quasiquote_item(expressions.first, env, 1, st, d)

do_unquote(expressions, env, st, d) ==
    Raise("lispError", "unquote outside of quasiquote", st)

\* Promise(expression, env): a new promise object
Promise(expression, env, st) ==
    Val(PromiseRef(Len(st.promises) + 1),
        [st EXCEPT !.promises = Append(@, NewPromise(expression, env))])

do_delay_form(expressions, env, st, d) ==
    IF check_form(expressions, 1, 1) # ""
    THEN Raise("lispError", check_form(expressions, 1, 1), st)
    ELSE Promise(expressions.first, env, st)

\* Variant for C7: the second operand is evaluated when the stream is made
EagerConsStream(expressions, env, st, d) ==
    LET a == optimized_eval(expressions.first, env, FALSE, st, d)
        b == optimized_eval(expressions.second.first, env, FALSE, a.st, d)
        p == do_delay_form(expressions.second, env, b.st, d)
    IN CASE check_form(expressions, 2, 2) # "" ->
              Raise("lispError", check_form(expressions, 2, 2), st)
         [] a.k = "exc" -> a
         [] b.k = "exc" -> b
         [] p.k = "exc" -> p
         [] OTHER -> Val(Pair(a.v, p.v), p.st)

do_cons_stream_form(expressions, env, st, d) ==
    LET a == optimized_eval(expressions.first, env, FALSE, st, d)
        p == do_delay_form(expressions.second, env, a.st, d)
    IN CASE check_form(expressions, 2, 2) # "" ->
              Raise("lispError", check_form(expressions, 2, 2), st)
         [] a.k = "exc" -> a
         [] p.k = "exc" -> p
         [] OTHER -> Val(Pair(a.v, p.v), p.st)

\* SPECIAL_FORMS[first](rest, env)
DoSpecialForm(name, rest, env, st, d) ==
    CASE name = "and" -> do_and_form(rest, env, st, d)
      [] name = "begin" -> do_begin_form(rest, env, st, d)
      [] name = "cond" -> do_cond_form(rest, env, st, d)
      [] name = "define" -> do_define_form(rest, env, st, d)
      [] name = "if" -> do_if_form(rest, env, st, d)
      [] name = "lambda" -> do_lambda_form(rest, env, st, d)
      [] name = "let" -> do_let_form(rest, env, st, d)
      [] name = "or" -> do_or_form(rest, env, st, d)
      [] name = "quote" -> do_quote_form(rest, env, st, d)
      [] name = "define-macro" -> do_define_macro(rest, env, st, d)
      [] name = "quasiquote" -> do_quasiquote_form(rest, env, st, d)
      [] name = "unquote" -> do_unquote(rest, env, st, d)
      [] name = "mu" -> do_mu_form(rest, env, st, d)
      [] name = "cons-stream" -> do_cons_stream_form(rest, env, st, d)
      [] name = "delay" -> do_delay_form(rest, env, st, d)

\* Promise.evaluate
Promise_evaluate(self, st, d) ==
    LET p == st.promises[self.pid]
        \* what follows value = lisp_eval(self.expression, self.env)
        Memoize(value) ==
            CASE value.k = "exc" -> value
              [] ~(value.v.t = "nil" \/ value.v.t = "pair") ->
                   Raise("lispError",
                         "result of forcing a promise should be a pair or nil, but was ",
                         value.st)
              [] OTHER ->
                   Val(value.v, [value.st EXCEPT !.promises[self.pid] =
                                    [@ EXCEPT !.value = value.v, !.hasvalue = TRUE,
                                              !.expression = None, !.nevals = @ + 1]])
    IN CASE p.expression.t = "none" /\ p.hasvalue -> Val(p.value, st)
         [] p.expression.t = "none" ->
              Raise("AttributeError", "'Promise' object has no attribute 'value'", st)
         [] OTHER -> Memoize(optimized_eval(p.expression, p.env, FALSE, st, d))

(***************************************************************************)
(* Built-in procedures (lisp_builtins.py and the "Extra Procedures" of     *)
(* lisp_interpreter.py).  A number is an int, or a real kept as a reduced  *)
(* fraction; _arith turns an integral result back into an int.             *)
(***************************************************************************)
Abs(n) == IF n < 0 THEN -n ELSE n

RECURSIVE Gcd(_, _)
Gcd(a, b) == IF b = 0 THEN a ELSE Gcd(b, a % b)

Num(v) == IF v.t = "int" THEN v.n ELSE v.num
Den(v) == IF v.t = "int" THEN 1 ELSE v.den

\* "if int(s) == s: s = int(s)" of _arith, on the fraction num/den (den > 0)
Normal(num, den) ==
    LET Reduced(g) ==
            IF den \div g = 1 THEN Integer(num \div g) ELSE Float(num \div g, den \div g)
    IN Reduced(Gcd(Abs(num), den))

NumAdd(x, y) == Normal(Num(x) * Den(y) + Num(y) * Den(x), Den(x) * Den(y))
NumSub(x, y) == Normal(Num(x) * Den(y) - Num(y) * Den(x), Den(x) * Den(y))
NumMul(x, y) == Normal(Num(x) * Num(y), Den(x) * Den(y))
\* operator.truediv, y # 0
NumDiv(x, y) ==
    IF Num(y) > 0 THEN Normal(Num(x) * Den(y), Den(x) * Num(y))
    ELSE Normal(-(Num(x) * Den(y)), Den(x) * (-Num(y)))
NumEq(x, y) == Num(x) * Den(y) = Num(y) * Den(x)
NumLt(x, y) == Num(x) * Den(y) < Num(y) * Den(x)

\* _check_nums
AllNums(a) == \A i \in 1..Len(a) : lisp_numberp(a[i])

\* the for loop of _arith
RECURSIVE Fold(_, _, _)
Fold(op, acc, a) ==
    IF a = <<>> THEN acc
    ELSE Fold(op, (CASE op = "+" -> NumAdd(acc, Head(a))
                     [] op = "-" -> NumSub(acc, Head(a))
                     [] op = "*" -> NumMul(acc, Head(a))
                     [] op = "/" -> NumDiv(acc, Head(a))), Tail(a))

\* a division of the fold divides by zero
DivByZero(a) == \E i \in 1..Len(a) : Num(a[i]) = 0

\* Python truth of a value, as "if complete_apply(...)" in lisp_filter tests
\* it: False, 0, None and nil (whose len() is 0) are false
PyTruthy(v) ==
    ~(\/ v.t = "bool" /\ v.b = FALSE
      \/ v.t \in {"int", "real"} /\ Num(v) = 0
      \/ v.t = "none"
      \/ v.t = "nil")

NotNumber(st) == Raise("lispError", "operand is not a number", st)
WrongArgs(st) == Raise("TypeError", "wrong number of arguments", st)
WrongType(st) == Raise("lispError", "argument has wrong type", st)

\* lisp_force
lisp_force(x, st, d) ==
    IF ~lisp_promisep(x) THEN WrongType(st) ELSE Promise_evaluate(x, st, d)

\* lisp_cdr_stream
lisp_cdr_stream(x, st, d) ==
    IF ~(lisp_pairp(x) /\ lisp_promisep(x.second)) THEN WrongType(st)
    ELSE lisp_force(x.second, st, d)

\* s.map(lambda x: complete_apply(fn, Pair(x, nil), env)) of lisp_map
map_loop(fn, s, env, st, d) ==
    LET Rest(r, rs) == IF rs.k = "exc" THEN rs ELSE Val(Pair(r.v, rs.v), rs.st)
        First(r) ==
            IF r.k = "exc" THEN r ELSE Rest(r, map_loop(fn, s.second, env, r.st, d))
    IN IF s.t # "pair" THEN Val(nil, st)
       ELSE First(complete_apply(fn, Pair(s.first, nil), env, st, d))

lisp_map(fn, s, env, st, d) ==
    IF ~lisp_procedurep(fn) \/ ~lisp_listp(s) THEN WrongType(st)
    ELSE map_loop(fn, s, env, st, d)

\* the while loop of lisp_filter
filter_loop(fn, s, env, st, d) ==
    LET Rest(r, rs) ==
            IF rs.k = "exc" THEN rs
            ELSE IF PyTruthy(r.v) THEN Val(Pair(s.first, rs.v), rs.st)
            ELSE rs
        First(r) ==
            IF r.k = "exc" THEN r ELSE Rest(r, filter_loop(fn, s.second, env, r.st, d))
    IN IF s.t # "pair" THEN Val(nil, st)
       ELSE First(complete_apply(fn, Pair(s.first, nil), env, st, d))

lisp_filter(fn, s, env, st, d) ==
    IF ~lisp_procedurep(fn) \/ ~lisp_listp(s) THEN WrongType(st)
    ELSE filter_loop(fn, s, env, st, d)

\* the while loop of lisp_reduce
reduce_loop(fn, value, s, env, st, d) ==
    LET Step(r) ==
            IF r.k = "exc" THEN r ELSE reduce_loop(fn, r.v, s.second, env, r.st, d)
    IN IF s.t # "pair" THEN Val(value, st)
       ELSE Step(complete_apply(fn, L(<<value, s.first>>), env, st, d))

lisp_reduce(fn, s, env, st, d) ==
    IF ~lisp_procedurep(fn) \/ s.t = "nil" \/ ~lisp_listp(s) THEN WrongType(st)
    ELSE reduce_loop(fn, s.first, s.second, env, st, d)

\* the names create_global_frame binds to built-ins in this model
BuiltinNames ==
    {"eval", "apply", "map", "filter", "reduce", "procedure?",
     "force", "cdr-stream", "car", "cdr", "cons", "list", "length",
     "null?", "pair?", "promise?", "not",
     "+", "-", "*", "/", "=", "<", ">", "print", "error", "exit"}

\* the call of self.fn with python_args: a is the Python argument list
CallBuiltin(name, a, st, d) ==
    LET n == Len(a)
    IN
    CASE name = "eval" ->
           \* optimized_eval(expr, env, tail=False): with use_env the calling
           \* frame comes last, so (eval e x) passes x as env and the frame
           \* (a true value) as tail
           IF n = 2 THEN optimized_eval(a[1], a[2], FALSE, st, d)
           ELSE IF n = 3 THEN optimized_eval(a[1], a[2], TRUE, st, d)
           ELSE WrongArgs(st)
      [] name = "apply" ->
           IF n = 3 THEN complete_apply(a[1], a[2], a[3], st, d) ELSE WrongArgs(st)
      [] name = "map" ->
           IF n = 3 THEN lisp_map(a[1], a[2], a[3], st, d) ELSE WrongArgs(st)
      [] name = "filter" ->
           IF n = 3 THEN lisp_filter(a[1], a[2], a[3], st, d) ELSE WrongArgs(st)
      [] name = "reduce" ->
           IF n = 3 THEN lisp_reduce(a[1], a[2], a[3], st, d) ELSE WrongArgs(st)
      [] name = "procedure?" ->
           IF n = 1 THEN Val(Bool(lisp_procedurep(a[1])), st) ELSE WrongArgs(st)
      [] name = "force" ->
           IF n = 1 THEN lisp_force(a[1], st, d) ELSE WrongArgs(st)
      [] name = "cdr-stream" ->
           IF n = 1 THEN lisp_cdr_stream(a[1], st, d) ELSE WrongArgs(st)
      [] name = "car" ->
           IF n # 1 THEN WrongArgs(st)
           ELSE IF ~lisp_pairp(a[1]) THEN WrongType(st) ELSE Val(a[1].first, st)
      [] name = "cdr" ->
           IF n # 1 THEN WrongArgs(st)
           ELSE IF ~lisp_pairp(a[1]) THEN WrongType(st) ELSE Val(a[1].second, st)
      [] name = "cons" ->
           IF n = 2 THEN Val(Pair(a[1], a[2]), st) ELSE WrongArgs(st)
      [] name = "list" -> Val(L(a), st)
      [] name = "length" ->
           IF n # 1 THEN WrongArgs(st)
           ELSE IF ~lisp_listp(a[1]) THEN WrongType(st)
           ELSE Val(Integer(PairLen(a[1])), st)
      [] name = "null?" ->
           IF n = 1 THEN Val(Bool(lisp_nullp(a[1])), st) ELSE WrongArgs(st)
      [] name = "pair?" ->
           IF n = 1 THEN Val(Bool(lisp_pairp(a[1])), st) ELSE WrongArgs(st)
      [] name = "promise?" ->
           IF n = 1 THEN Val(Bool(lisp_promisep(a[1])), st) ELSE WrongArgs(st)
      [] name = "not" ->
           IF n = 1 THEN Val(Bool(~lisp_truep(a[1])), st) ELSE WrongArgs(st)
      [] name = "+" ->
           IF ~AllNums(a) THEN NotNumber(st) ELSE Val(Fold("+", Integer(0), a), st)
      [] name = "*" ->
           IF ~AllNums(a) THEN NotNumber(st) ELSE Val(Fold("*", Integer(1), a), st)
      [] name = "-" ->
           IF n = 0 THEN WrongArgs(st)
           ELSE IF ~AllNums(a) THEN NotNumber(st)
           ELSE IF n = 1 THEN Val(NumSub(Integer(0), a[1]), st)
           ELSE Val(Fold("-", a[1], Tail(a)), st)
      [] name = "/" ->
           IF n = 0 THEN WrongArgs(st)
           ELSE IF ~AllNums(a) THEN NotNumber(st)
           ELSE IF n = 1
           THEN IF Num(a[1]) = 0 THEN Raise("lispError", "division by zero", st)
                ELSE Val(NumDiv(Integer(1), a[1]), st)
           ELSE IF DivByZero(Tail(a)) THEN Raise("lispError", "division by zero", st)
           ELSE Val(Fold("/", a[1], Tail(a)), st)
      [] name = "=" ->
           IF n # 2 THEN WrongArgs(st)
           ELSE IF ~AllNums(a) THEN NotNumber(st) ELSE Val(Bool(NumEq(a[1], a[2])), st)
      [] name = "<" ->
           IF n # 2 THEN WrongArgs(st)
           ELSE IF ~AllNums(a) THEN NotNumber(st) ELSE Val(Bool(NumLt(a[1], a[2])), st)
      [] name = ">" ->
           IF n # 2 THEN WrongArgs(st)
           ELSE IF ~AllNums(a) THEN NotNumber(st) ELSE Val(Bool(NumLt(a[2], a[1])), st)
      [] name = "print" ->
           IF n = 1 THEN Val(None, [st EXCEPT !.out = Append(@, [s |-> "", v |-> a[1]])])
           ELSE WrongArgs(st)
      [] name = "error" ->
           IF n <= 1 THEN Raise("lispError", "", st) ELSE WrongArgs(st)
      [] name = "exit" ->
           IF n = 0 THEN Raise("EOFError", "", st) ELSE WrongArgs(st)

\* BuiltinProcedure.apply: whatever the host function raises is replaced by
\* a bare lispError
BuiltinProcedure_apply(self, args, env, st, d) ==
    IF ~lisp_listp(args)
    THEN Raise("lispError", "arguments are not in a list: ", st)
    ELSE LET python_args == IF self.name \in UseEnv THEN Append(ListToSeq(args), env)
                            ELSE ListToSeq(args)
             \* except: raise lispError
             Except(r) == IF r.k = "exc" THEN Raise("lispError", "", r.st) ELSE r
         IN Except(CallBuiltin(self.name, python_args,
                               Log(st, Event("builtin", self, args, d, None)), d))

(***************************************************************************)
(* The global frame (create_global_frame) and one evaluation from the      *)
(* read-eval-print loop.                                                   *)
(***************************************************************************)
Global == FrameRef(1)

create_global_frame ==
    [bindings |-> [x \in BuiltinNames \cup {"undefined"} |->
                      IF x = "undefined" THEN None ELSE BuiltinProcedure(x)],
     parent |-> None]

\* result = lisp_eval(expression, env) in read_eval_print_loop
Evaluate(expression) ==
    optimized_eval(expression, Global, FALSE,
                   [frames |-> frames, promises |-> promises,
                    trace |-> <<>>, maxd |-> 0, out |-> <<>>, limit |-> FALSE], 0)

\* the exceptions the loop catches, prints and survives
Caught(r) ==
    \/ r.cls \in {"lispError", "SyntaxError", "ValueError"}
    \/ r.cls = "RuntimeError" /\ r.msg = "maximum recursion depth exceeded"

\* what is remembered of one evaluation
Outcome(expression, r, printed) ==
    [expr |-> expression, k |-> r.k, v |-> r.v, cls |-> r.cls, msg |-> r.msg,
     maxd |-> r.st.maxd, trace |-> r.st.trace, out |-> r.st.out,
     limit |-> r.st.limit,
     printed |-> printed]

(***************************************************************************)
(* The sessions: what the reader delivers to the loop, one expression per  *)
(* element.  Each family is a short program; its integer parameters range  *)
(* over Vals.                                                              *)
(***************************************************************************)
\* the largest integer a session binds to a variable
MaxVal == 2
Vals == 1..MaxVal

\* ---- lexical scope ----
\* (define x a)
\* (define f (lambda () x))
\* (define x b)
\* (f)
Lex1(a, b) ==
    <<L(<<Sym("define"), Sym("x"), Integer(a)>>),
      L(<<Sym("define"), Sym("f"), L(<<Sym("lambda"), nil, Sym("x")>>)>>),
      L(<<Sym("define"), Sym("x"), Integer(b)>>),
      L(<<Sym("f")>>)>>

\* ((lambda (x) ((lambda (y) x) b)) a)
Lex2(a, b) ==
    <<L(<<L(<<Sym("lambda"), L(<<Sym("x")>>), L(<<L(<<Sym("lambda"), L(<<Sym("y")>>),
        Sym("x")>>), Integer(b)>>)>>), Integer(a)>>)>>

\* (define x a)
\* (define (f) x)
\* (define (g x) (f))
\* (g b)
Lex3(a, b) ==
    <<L(<<Sym("define"), Sym("x"), Integer(a)>>),
      L(<<Sym("define"), L(<<Sym("f")>>), Sym("x")>>),
      L(<<Sym("define"), L(<<Sym("g"), Sym("x")>>), L(<<Sym("f")>>)>>),
      L(<<Sym("g"), Integer(b)>>)>>

\* (define x a)
\* (define (f) x)
\* (define (g x) (+ (f) 0))
\* (g b)
Lex4(a, b) ==
    <<L(<<Sym("define"), Sym("x"), Integer(a)>>),
      L(<<Sym("define"), L(<<Sym("f")>>), Sym("x")>>),
      L(<<Sym("define"), L(<<Sym("g"), Sym("x")>>), L(<<Sym("+"), L(<<Sym("f")>>),
        Integer(0)>>)>>),
      L(<<Sym("g"), Integer(b)>>)>>

\* (define (mk x) (lambda () x))
\* (define h (mk a))
\* (define x b)
\* (h)
Lex5(a, b) ==
    <<L(<<Sym("define"), L(<<Sym("mk"), Sym("x")>>), L(<<Sym("lambda"), nil,
        Sym("x")>>)>>),
      L(<<Sym("define"), Sym("h"), L(<<Sym("mk"), Integer(a)>>)>>),
      L(<<Sym("define"), Sym("x"), Integer(b)>>),
      L(<<Sym("h")>>)>>

\* (define (mk x) (define h (lambda () x)) (define x b) h)
\* ((mk a))
Lex6(a, b) ==
    <<L(<<Sym("define"), L(<<Sym("mk"), Sym("x")>>), L(<<Sym("define"), Sym("h"),
        L(<<Sym("lambda"), nil, Sym("x")>>)>>), L(<<Sym("define"), Sym("x"),
        Integer(b)>>), Sym("h")>>),
      L(<<L(<<Sym("mk"), Integer(a)>>)>>)>>

\* (define m (mu () x))
\* (define f (lambda (x) (m)))
\* (f b)
Dyn1(a, b) ==
    <<L(<<Sym("define"), Sym("m"), L(<<Sym("mu"), nil, Sym("x")>>)>>),
      L(<<Sym("define"), Sym("f"), L(<<Sym("lambda"), L(<<Sym("x")>>),
        L(<<Sym("m")>>)>>)>>),
      L(<<Sym("f"), Integer(b)>>)>>

\* (define x a)
\* (define m (mu () x))
\* (define f (lambda (x) (m)))
\* (f b)
Dyn2(a, b) ==
    <<L(<<Sym("define"), Sym("x"), Integer(a)>>),
      L(<<Sym("define"), Sym("m"), L(<<Sym("mu"), nil, Sym("x")>>)>>),
      L(<<Sym("define"), Sym("f"), L(<<Sym("lambda"), L(<<Sym("x")>>),
        L(<<Sym("m")>>)>>)>>),
      L(<<Sym("f"), Integer(b)>>)>>

\* (define x a)
\* (define m (mu () x))
\* (define f (lambda (x) (+ (m) 0)))
\* (f b)
Dyn3(a, b) ==
    <<L(<<Sym("define"), Sym("x"), Integer(a)>>),
      L(<<Sym("define"), Sym("m"), L(<<Sym("mu"), nil, Sym("x")>>)>>),
      L(<<Sym("define"), Sym("f"), L(<<Sym("lambda"), L(<<Sym("x")>>), L(<<Sym("+"),
        L(<<Sym("m")>>), Integer(0)>>)>>)>>),
      L(<<Sym("f"), Integer(b)>>)>>

\* (define m ((lambda (x) (mu () x)) a))
\* (define f (lambda (x) (m)))
\* (f b)
Dyn4(a, b) ==
    <<L(<<Sym("define"), Sym("m"), L(<<L(<<Sym("lambda"), L(<<Sym("x")>>),
        L(<<Sym("mu"), nil, Sym("x")>>)>>), Integer(a)>>)>>),
      L(<<Sym("define"), Sym("f"), L(<<Sym("lambda"), L(<<Sym("x")>>),
        L(<<Sym("m")>>)>>)>>),
      L(<<Sym("f"), Integer(b)>>)>>

\* (define x a)
\* (define m (mu () x))
\* (define f (lambda (x) (let ((y 0)) (begin y (m)))))
\* (f b)
Dyn5(a, b) ==
    <<L(<<Sym("define"), Sym("x"), Integer(a)>>),
      L(<<Sym("define"), Sym("m"), L(<<Sym("mu"), nil, Sym("x")>>)>>),
      L(<<Sym("define"), Sym("f"), L(<<Sym("lambda"), L(<<Sym("x")>>),
        L(<<Sym("let"), L(<<L(<<Sym("y"), Integer(0)>>)>>), L(<<Sym("begin"), Sym("y"),
        L(<<Sym("m")>>)>>)>>)>>)>>),
      L(<<Sym("f"), Integer(b)>>)>>

\* (define m (mu () x))
\* (m)
\* (define x a)
\* (m)
Dyn6(a, b) ==
    <<L(<<Sym("define"), Sym("m"), L(<<Sym("mu"), nil, Sym("x")>>)>>),
      L(<<Sym("m")>>),
      L(<<Sym("define"), Sym("x"), Integer(a)>>),
      L(<<Sym("m")>>)>>


LexicalSessions ==
    {Lex1(a, b) : a \in Vals, b \in Vals} \cup {Lex2(a, b) : a \in Vals, b \in Vals}
    \cup {Lex3(a, b) : a \in Vals, b \in Vals} \cup {Lex4(a, b) : a \in Vals, b \in Vals}
    \cup {Lex5(a, b) : a \in Vals, b \in Vals} \cup {Lex6(a, b) : a \in Vals, b \in Vals}

DynamicSessions ==
    {Dyn1(a, b) : a \in {1}, b \in Vals} \cup {Dyn2(a, b) : a \in Vals, b \in Vals}
    \cup {Dyn3(a, b) : a \in Vals, b \in Vals} \cup {Dyn4(a, b) : a \in Vals, b \in Vals}
    \cup {Dyn5(a, b) : a \in Vals, b \in Vals} \cup {Dyn6(a, b) : a \in Vals, b \in {1}}

\* ---- tail calls ----
\* (define (loop n) (if (= n 0) 0 (loop (- n 1))))
LoopIf ==
    L(<<Sym("define"), L(<<Sym("loop"), Sym("n")>>), L(<<Sym("if"), L(<<Sym("="),
      Sym("n"), Integer(0)>>), Integer(0), L(<<Sym("loop"), L(<<Sym("-"), Sym("n"),
      Integer(1)>>)>>)>>)>>)

\* (define (loop n) (if (= n 0) 0 (begin n (loop (- n 1)))))
LoopBegin ==
    L(<<Sym("define"), L(<<Sym("loop"), Sym("n")>>), L(<<Sym("if"), L(<<Sym("="),
      Sym("n"), Integer(0)>>), Integer(0), L(<<Sym("begin"), Sym("n"), L(<<Sym("loop"),
      L(<<Sym("-"), Sym("n"), Integer(1)>>)>>)>>)>>)>>)

\* (define (loop n) (if (= n 0) 0 (let ((m (- n 1))) (loop m))))
LoopLet ==
    L(<<Sym("define"), L(<<Sym("loop"), Sym("n")>>), L(<<Sym("if"), L(<<Sym("="),
      Sym("n"), Integer(0)>>), Integer(0), L(<<Sym("let"), L(<<L(<<Sym("m"),
      L(<<Sym("-"), Sym("n"), Integer(1)>>)>>)>>), L(<<Sym("loop"),
      Sym("m")>>)>>)>>)>>)

\* (define (loop n) (and (> n 0) (loop (- n 1))))
LoopAnd ==
    L(<<Sym("define"), L(<<Sym("loop"), Sym("n")>>), L(<<Sym("and"), L(<<Sym(">"),
      Sym("n"), Integer(0)>>), L(<<Sym("loop"), L(<<Sym("-"), Sym("n"),
      Integer(1)>>)>>)>>)>>)

\* (define (loop n) (or (= n 0) (loop (- n 1))))
LoopOr ==
    L(<<Sym("define"), L(<<Sym("loop"), Sym("n")>>), L(<<Sym("or"), L(<<Sym("="),
      Sym("n"), Integer(0)>>), L(<<Sym("loop"), L(<<Sym("-"), Sym("n"),
      Integer(1)>>)>>)>>)>>)

\* (define (loop n) (cond ((= n 0) 0) (else (loop (- n 1)))))
LoopCond ==
    L(<<Sym("define"), L(<<Sym("loop"), Sym("n")>>), L(<<Sym("cond"),
      L(<<L(<<Sym("="), Sym("n"), Integer(0)>>), Integer(0)>>), L(<<Sym("else"),
      L(<<Sym("loop"), L(<<Sym("-"), Sym("n"), Integer(1)>>)>>)>>)>>)>>)

\* (define (loop n) (define k n) (if (= k 0) 0 (loop (- k 1))))
LoopBody ==
    L(<<Sym("define"), L(<<Sym("loop"), Sym("n")>>), L(<<Sym("define"), Sym("k"),
      Sym("n")>>), L(<<Sym("if"), L(<<Sym("="), Sym("k"), Integer(0)>>), Integer(0),
      L(<<Sym("loop"), L(<<Sym("-"), Sym("k"), Integer(1)>>)>>)>>)>>)

\* (define loop (mu (n) (if (= n 0) 0 (loop (- n 1)))))
LoopMu ==
    L(<<Sym("define"), Sym("loop"), L(<<Sym("mu"), L(<<Sym("n")>>), L(<<Sym("if"),
      L(<<Sym("="), Sym("n"), Integer(0)>>), Integer(0), L(<<Sym("loop"), L(<<Sym("-"),
      Sym("n"), Integer(1)>>)>>)>>)>>)>>)

\* (define (rec n) (if (= n 0) 0 (+ 1 (rec (- n 1)))))
RecDef ==
    L(<<Sym("define"), L(<<Sym("rec"), Sym("n")>>), L(<<Sym("if"), L(<<Sym("="),
      Sym("n"), Integer(0)>>), Integer(0), L(<<Sym("+"), Integer(1), L(<<Sym("rec"),
      L(<<Sym("-"), Sym("n"), Integer(1)>>)>>)>>)>>)>>)

\* (loop n)
LoopCall(n) ==
    L(<<Sym("loop"), Integer(n)>>)

\* (rec n)
RecCall(n) ==
    L(<<Sym("rec"), Integer(n)>>)


\* the definitions of loop whose recursive call is in a tail position: a
\* branch of if, the last expression of begin, of a let body, the last
\* operand of and / or, the last expression of a cond clause, the last
\* expression of a procedure body, a mu procedure
LoopDefs == {LoopIf, LoopBegin, LoopLet, LoopAnd, LoopOr, LoopCond, LoopBody, LoopMu}

\* chain lengths: short ones and one longer than the host recursion limit
LoopCounts == (0..MaxLoop) \cup {MaxDepth + 1}

TailSession(def, n) == <<def, LoopCall(1), LoopCall(n)>>
NonTailSession(n) == <<RecDef, RecCall(1), RecCall(n)>>

\* a loop whose tail call is made through a macro expansion
\* (define-macro (again k) (list 'loop k))
AgainDef ==
    L(<<Sym("define-macro"), L(<<Sym("again"), Sym("k")>>), L(<<Sym("list"),
      L(<<Sym("quote"), Sym("loop")>>), Sym("k")>>)>>)

\* (define (loop n) (if (= n 0) 0 (again (- n 1))))
LoopAgain ==
    L(<<Sym("define"), L(<<Sym("loop"), Sym("n")>>), L(<<Sym("if"), L(<<Sym("="),
      Sym("n"), Integer(0)>>), Integer(0), L(<<Sym("again"), L(<<Sym("-"), Sym("n"),
      Integer(1)>>)>>)>>)>>)

MacroTailSession(n) == <<AgainDef, LoopAgain, LoopCall(1), LoopCall(n)>>
MacroTailSessions == {MacroTailSession(n) : n \in LoopCounts}

TailSessions == {TailSession(def, n) : def \in LoopDefs, n \in LoopCounts}
NonTailSessions == {NonTailSession(n) : n \in LoopCounts}

\* ---- thunks ----
\* f calls id in tail position, so applying f gives a Thunk first
\* (define (id x) x)
\* (define (f x) (id x))
\* (define y (f a))
\* y
\* (cons (f a) (f nil))
Thk1(a, b) ==
    <<L(<<Sym("define"), L(<<Sym("id"), Sym("x")>>), Sym("x")>>),
      L(<<Sym("define"), L(<<Sym("f"), Sym("x")>>), L(<<Sym("id"), Sym("x")>>)>>),
      L(<<Sym("define"), Sym("y"), L(<<Sym("f"), Integer(a)>>)>>),
      Sym("y"),
      L(<<Sym("cons"), L(<<Sym("f"), Integer(a)>>), L(<<Sym("f"), nil>>)>>)>>

\* (define (id x) x)
\* (define (f x) (id x))
\* (map f (list a b))
\* (apply f (list a))
Thk2(a, b) ==
    <<L(<<Sym("define"), L(<<Sym("id"), Sym("x")>>), Sym("x")>>),
      L(<<Sym("define"), L(<<Sym("f"), Sym("x")>>), L(<<Sym("id"), Sym("x")>>)>>),
      L(<<Sym("map"), Sym("f"), L(<<Sym("list"), Integer(a), Integer(b)>>)>>),
      L(<<Sym("apply"), Sym("f"), L(<<Sym("list"), Integer(a)>>)>>)>>

\* (define (id x) x)
\* (define (f x) (id x))
\* (define p (delay (f (list a))))
\* (force p)
\* (force p)
Thk3(a, b) ==
    <<L(<<Sym("define"), L(<<Sym("id"), Sym("x")>>), Sym("x")>>),
      L(<<Sym("define"), L(<<Sym("f"), Sym("x")>>), L(<<Sym("id"), Sym("x")>>)>>),
      L(<<Sym("define"), Sym("p"), L(<<Sym("delay"), L(<<Sym("f"), L(<<Sym("list"),
        Integer(a)>>)>>)>>)>>),
      L(<<Sym("force"), Sym("p")>>),
      L(<<Sym("force"), Sym("p")>>)>>

\* (define (id x) x)
\* (define (f x) (id x))
\* (if (f #f) a b)
\* (cond ((f #f) a) ((f b)))
Thk4(a, b) ==
    <<L(<<Sym("define"), L(<<Sym("id"), Sym("x")>>), Sym("x")>>),
      L(<<Sym("define"), L(<<Sym("f"), Sym("x")>>), L(<<Sym("id"), Sym("x")>>)>>),
      L(<<Sym("if"), L(<<Sym("f"), Bool(FALSE)>>), Integer(a), Integer(b)>>),
      L(<<Sym("cond"), L(<<L(<<Sym("f"), Bool(FALSE)>>), Integer(a)>>),
        L(<<L(<<Sym("f"), Integer(b)>>)>>)>>)>>

\* (define (id x) x)
\* (define (f x) (id x))
\* (let ((z (f a))) z)
\* (+ (f a) b)
Thk5(a, b) ==
    <<L(<<Sym("define"), L(<<Sym("id"), Sym("x")>>), Sym("x")>>),
      L(<<Sym("define"), L(<<Sym("f"), Sym("x")>>), L(<<Sym("id"), Sym("x")>>)>>),
      L(<<Sym("let"), L(<<L(<<Sym("z"), L(<<Sym("f"), Integer(a)>>)>>)>>),
        Sym("z")>>),
      L(<<Sym("+"), L(<<Sym("f"), Integer(a)>>), Integer(b)>>)>>

\* (define (id x) x)
\* (define (f x) (id x))
\* (and (f #f) a)
\* (or (f #f) (f a))
\* (and a (f b))
Thk6(a, b) ==
    <<L(<<Sym("define"), L(<<Sym("id"), Sym("x")>>), Sym("x")>>),
      L(<<Sym("define"), L(<<Sym("f"), Sym("x")>>), L(<<Sym("id"), Sym("x")>>)>>),
      L(<<Sym("and"), L(<<Sym("f"), Bool(FALSE)>>), Integer(a)>>),
      L(<<Sym("or"), L(<<Sym("f"), Bool(FALSE)>>), L(<<Sym("f"), Integer(a)>>)>>),
      L(<<Sym("and"), Integer(a), L(<<Sym("f"), Integer(b)>>)>>)>>

\* (define (id x) x)
\* (define (f x) (id x))
\* (eval (list (quote f) a))
\* (apply eval (list (quote (quote x)) b))
\* (eval (quote (f a)) b)
Thk7(a, b) ==
    <<L(<<Sym("define"), L(<<Sym("id"), Sym("x")>>), Sym("x")>>),
      L(<<Sym("define"), L(<<Sym("f"), Sym("x")>>), L(<<Sym("id"), Sym("x")>>)>>),
      L(<<Sym("eval"), L(<<Sym("list"), L(<<Sym("quote"), Sym("f")>>),
        Integer(a)>>)>>),
      L(<<Sym("apply"), Sym("eval"), L(<<Sym("list"), L(<<Sym("quote"),
        L(<<Sym("quote"), Sym("x")>>)>>), Integer(b)>>)>>),
      L(<<Sym("eval"), L(<<Sym("quote"), L(<<Sym("f"), Integer(a)>>)>>),
        Integer(b)>>)>>

\* (define (id x) x)
\* (define (f x) (id x))
\* (define-macro (m e) (id e))
\* (m (f a))
\* (quasiquote (a (unquote (f b))))
Thk8(a, b) ==
    <<L(<<Sym("define"), L(<<Sym("id"), Sym("x")>>), Sym("x")>>),
      L(<<Sym("define"), L(<<Sym("f"), Sym("x")>>), L(<<Sym("id"), Sym("x")>>)>>),
      L(<<Sym("define-macro"), L(<<Sym("m"), Sym("e")>>), L(<<Sym("id"),
        Sym("e")>>)>>),
      L(<<Sym("m"), L(<<Sym("f"), Integer(a)>>)>>),
      L(<<Sym("quasiquote"), L(<<Integer(a), L(<<Sym("unquote"), L(<<Sym("f"),
        Integer(b)>>)>>)>>)>>)>>

\* (define (id x) x)
\* (define (f x) (id x))
\* (define s (cons-stream (f a) (f nil)))
\* (car s)
\* (cdr-stream s)
Thk9(a, b) ==
    <<L(<<Sym("define"), L(<<Sym("id"), Sym("x")>>), Sym("x")>>),
      L(<<Sym("define"), L(<<Sym("f"), Sym("x")>>), L(<<Sym("id"), Sym("x")>>)>>),
      L(<<Sym("define"), Sym("s"), L(<<Sym("cons-stream"), L(<<Sym("f"),
        Integer(a)>>), L(<<Sym("f"), nil>>)>>)>>),
      L(<<Sym("car"), Sym("s")>>),
      L(<<Sym("cdr-stream"), Sym("s")>>)>>

\* (define (id x) x)
\* (define (f x) (id x))
\* (reduce (mu (x y) (f y)) (list a b))
\* (filter f (list a #f b))
Thk10(a, b) ==
    <<L(<<Sym("define"), L(<<Sym("id"), Sym("x")>>), Sym("x")>>),
      L(<<Sym("define"), L(<<Sym("f"), Sym("x")>>), L(<<Sym("id"), Sym("x")>>)>>),
      L(<<Sym("reduce"), L(<<Sym("mu"), L(<<Sym("x"), Sym("y")>>), L(<<Sym("f"),
        Sym("y")>>)>>), L(<<Sym("list"), Integer(a), Integer(b)>>)>>),
      L(<<Sym("filter"), Sym("f"), L(<<Sym("list"), Integer(a), Bool(FALSE),
        Integer(b)>>)>>)>>

ThunkSessions ==
    {Thk1(a, b) : a \in Vals, b \in Vals}
    \cup {Thk2(a, b) : a \in Vals, b \in Vals}
    \cup {Thk3(a, b) : a \in Vals, b \in Vals}
    \cup {Thk4(a, b) : a \in Vals, b \in Vals}
    \cup {Thk5(a, b) : a \in Vals, b \in Vals}
    \cup {Thk6(a, b) : a \in Vals, b \in Vals}
    \cup {Thk7(a, b) : a \in Vals, b \in Vals}
    \cup {Thk8(a, b) : a \in Vals, b \in Vals}
    \cup {Thk9(a, b) : a \in Vals, b \in Vals}
    \cup {Thk10(a, b) : a \in Vals, b \in Vals}

\* ---- macros ----
\* (define-macro (m x) (list (quote quote) x))
\* (m (+ a b))
Mac1(a, b) ==
    <<L(<<Sym("define-macro"), L(<<Sym("m"), Sym("x")>>), L(<<Sym("list"),
        L(<<Sym("quote"), Sym("quote")>>), Sym("x")>>)>>),
      L(<<Sym("m"), L(<<Sym("+"), Integer(a), Integer(b)>>)>>)>>

\* (define-macro (fst x y) x)
\* (fst a (/ b 0))
Mac2(a, b) ==
    <<L(<<Sym("define-macro"), L(<<Sym("fst"), Sym("x"), Sym("y")>>), Sym("x")>>),
      L(<<Sym("fst"), Integer(a), L(<<Sym("/"), Integer(b), Integer(0)>>)>>)>>

\* (define y b)
\* (define-macro (ret e) e)
\* (define (g y) (ret y))
\* (g a)
Mac3(a, b) ==
    <<L(<<Sym("define"), Sym("y"), Integer(b)>>),
      L(<<Sym("define-macro"), L(<<Sym("ret"), Sym("e")>>), Sym("e")>>),
      L(<<Sym("define"), L(<<Sym("g"), Sym("y")>>), L(<<Sym("ret"), Sym("y")>>)>>),
      L(<<Sym("g"), Integer(a)>>)>>

\* (define-macro (twice e) (list (quote begin) e e))
\* (twice (print a))
Mac4(a, b) ==
    <<L(<<Sym("define-macro"), L(<<Sym("twice"), Sym("e")>>), L(<<Sym("list"),
        L(<<Sym("quote"), Sym("begin")>>), Sym("e"), Sym("e")>>)>>),
      L(<<Sym("twice"), L(<<Sym("print"), Integer(a)>>)>>)>>

\* (define z a)
\* (define-macro (mz x) z)
\* (define (h z) (mz (/ z 0)))
\* (h b)
Mac5(a, b) ==
    <<L(<<Sym("define"), Sym("z"), Integer(a)>>),
      L(<<Sym("define-macro"), L(<<Sym("mz"), Sym("x")>>), Sym("z")>>),
      L(<<Sym("define"), L(<<Sym("h"), Sym("z")>>), L(<<Sym("mz"), L(<<Sym("/"),
        Sym("z"), Integer(0)>>)>>)>>),
      L(<<Sym("h"), Integer(b)>>)>>

\* (define-macro (sum x y) (list (quote +) x y))
\* (sum (+ a 1) (* b 2))
Mac6(a, b) ==
    <<L(<<Sym("define-macro"), L(<<Sym("sum"), Sym("x"), Sym("y")>>),
        L(<<Sym("list"), L(<<Sym("quote"), Sym("+")>>), Sym("x"), Sym("y")>>)>>),
      L(<<Sym("sum"), L(<<Sym("+"), Integer(a), Integer(1)>>), L(<<Sym("*"),
        Integer(b), Integer(2)>>)>>)>>

MacroSessions ==
    {Mac1(a, b) : a \in Vals, b \in Vals}
    \cup {Mac2(a, b) : a \in Vals, b \in Vals}
    \cup {Mac3(a, b) : a \in Vals, b \in Vals}
    \cup {Mac4(a, b) : a \in Vals, b \in Vals}
    \cup {Mac5(a, b) : a \in Vals, b \in Vals}
    \cup {Mac6(a, b) : a \in Vals, b \in Vals}

\* ---- promises and streams ----
\* (define p (delay (begin (print a) (list a b))))
\* (force p)
\* (force p)
Frc1(a, b) ==
    <<L(<<Sym("define"), Sym("p"), L(<<Sym("delay"), L(<<Sym("begin"),
        L(<<Sym("print"), Integer(a)>>), L(<<Sym("list"), Integer(a),
        Integer(b)>>)>>)>>)>>),
      L(<<Sym("force"), Sym("p")>>),
      L(<<Sym("force"), Sym("p")>>)>>

\* (define n a)
\* (define p (delay (begin (define n (+ n b)) (list n))))
\* (force p)
\* (force p)
\* n
Frc2(a, b) ==
    <<L(<<Sym("define"), Sym("n"), Integer(a)>>),
      L(<<Sym("define"), Sym("p"), L(<<Sym("delay"), L(<<Sym("begin"),
        L(<<Sym("define"), Sym("n"), L(<<Sym("+"), Sym("n"), Integer(b)>>)>>),
        L(<<Sym("list"), Sym("n")>>)>>)>>)>>),
      L(<<Sym("force"), Sym("p")>>),
      L(<<Sym("force"), Sym("p")>>),
      Sym("n")>>

\* (define n 0)
\* (define p (delay (begin (define n (+ n 1)) (if (< n a) (force p) (list n b)))))
\* (force p)
\* n
Frc3(a, b) ==
    <<L(<<Sym("define"), Sym("n"), Integer(0)>>),
      L(<<Sym("define"), Sym("p"), L(<<Sym("delay"), L(<<Sym("begin"),
        L(<<Sym("define"), Sym("n"), L(<<Sym("+"), Sym("n"), Integer(1)>>)>>),
        L(<<Sym("if"), L(<<Sym("<"), Sym("n"), Integer(a)>>), L(<<Sym("force"),
        Sym("p")>>), L(<<Sym("list"), Sym("n"), Integer(b)>>)>>)>>)>>)>>),
      L(<<Sym("force"), Sym("p")>>),
      Sym("n")>>

\* (define s (cons-stream a (/ b 0)))
\* (car s)
\* (cdr-stream s)
Str1(a, b) ==
    <<L(<<Sym("define"), Sym("s"), L(<<Sym("cons-stream"), Integer(a), L(<<Sym("/"),
        Integer(b), Integer(0)>>)>>)>>),
      L(<<Sym("car"), Sym("s")>>),
      L(<<Sym("cdr-stream"), Sym("s")>>)>>

\* (define (mk x) (cons-stream x (cons x nil)))
\* (define s (mk a))
\* (define x b)
\* (cdr-stream s)
\* (cdr-stream s)
Str2(a, b) ==
    <<L(<<Sym("define"), L(<<Sym("mk"), Sym("x")>>), L(<<Sym("cons-stream"),
        Sym("x"), L(<<Sym("cons"), Sym("x"), nil>>)>>)>>),
      L(<<Sym("define"), Sym("s"), L(<<Sym("mk"), Integer(a)>>)>>),
      L(<<Sym("define"), Sym("x"), Integer(b)>>),
      L(<<Sym("cdr-stream"), Sym("s")>>),
      L(<<Sym("cdr-stream"), Sym("s")>>)>>

\* (define s (cons-stream (begin (print a) a) (begin (print b) nil)))
\* (car s)
\* (cdr-stream s)
\* (cdr-stream s)
Str3(a, b) ==
    <<L(<<Sym("define"), Sym("s"), L(<<Sym("cons-stream"), L(<<Sym("begin"),
        L(<<Sym("print"), Integer(a)>>), Integer(a)>>), L(<<Sym("begin"),
        L(<<Sym("print"), Integer(b)>>), nil>>)>>)>>),
      L(<<Sym("car"), Sym("s")>>),
      L(<<Sym("cdr-stream"), Sym("s")>>),
      L(<<Sym("cdr-stream"), Sym("s")>>)>>

\* (define v a)
\* (define p (delay v))
\* (force p)
\* (define v (list b))
\* (force p)
\* (force p)
Bad2(a, b) ==
    <<L(<<Sym("define"), Sym("v"), Integer(a)>>),
      L(<<Sym("define"), Sym("p"), L(<<Sym("delay"), Sym("v")>>)>>),
      L(<<Sym("force"), Sym("p")>>),
      L(<<Sym("define"), Sym("v"), L(<<Sym("list"), Integer(b)>>)>>),
      L(<<Sym("force"), Sym("p")>>),
      L(<<Sym("force"), Sym("p")>>)>>

\* (define p (delay (begin (print a) b)))
\* (force p)
\* (force p)
Bad3(a, b) ==
    <<L(<<Sym("define"), Sym("p"), L(<<Sym("delay"), L(<<Sym("begin"),
        L(<<Sym("print"), Integer(a)>>), Integer(b)>>)>>)>>),
      L(<<Sym("force"), Sym("p")>>),
      L(<<Sym("force"), Sym("p")>>)>>

\* (define s (cons-stream a b))
\* (cdr-stream s)
\* (cdr-stream s)
Bad4(a, b) ==
    <<L(<<Sym("define"), Sym("s"), L(<<Sym("cons-stream"), Integer(a),
        Integer(b)>>)>>),
      L(<<Sym("cdr-stream"), Sym("s")>>),
      L(<<Sym("cdr-stream"), Sym("s")>>)>>

\* (define p (delay e))
\* (force p)
\* (force p)
Bad1(e) ==
    <<L(<<Sym("define"), Sym("p"), L(<<Sym("delay"), e>>)>>),
      L(<<Sym("force"), Sym("p")>>),
      L(<<Sym("force"), Sym("p")>>)>>

\* #t
BadTrue ==
    Bool(TRUE)

\* (quote a)
BadSym ==
    L(<<Sym("quote"), Sym("a")>>)

\* undefined
BadUndefined ==
    Sym("undefined")

\* (lambda () 1)
BadProc ==
    L(<<Sym("lambda"), nil, Integer(1)>>)

\* (delay nil)
BadPromise ==
    L(<<Sym("delay"), nil>>)


\* (define again #t)
\* (define p (delay (begin (define k again) (define again #f) (if k (begin (force p) a) (list b)))))
\* (force p)
\* (force p)
Bad5(a, b) ==
    <<L(<<Sym("define"), Sym("again"), Bool(TRUE)>>),
      L(<<Sym("define"), Sym("p"), L(<<Sym("delay"), L(<<Sym("begin"),
        L(<<Sym("define"), Sym("k"), Sym("again")>>), L(<<Sym("define"), Sym("again"),
        Bool(FALSE)>>), L(<<Sym("if"), Sym("k"), L(<<Sym("begin"), L(<<Sym("force"),
        Sym("p")>>), Integer(a)>>), L(<<Sym("list"), Integer(b)>>)>>)>>)>>)>>),
      L(<<Sym("force"), Sym("p")>>),
      L(<<Sym("force"), Sym("p")>>)>>

\* expressions whose value is neither nil nor a pair
BadValues ==
    {BadTrue, BadSym, BadUndefined, BadProc, BadPromise} \cup {Integer(a) : a \in Vals}

PromiseSessions ==
    {Frc1(a, b) : a \in Vals, b \in Vals} \cup {Frc2(a, b) : a \in Vals, b \in Vals}
    \cup {Frc3(a, b) : a \in Vals, b \in Vals}

StreamSessions ==
    {Str1(a, b) : a \in Vals, b \in Vals} \cup {Str2(a, b) : a \in Vals, b \in Vals}
    \cup {Str3(a, b) : a \in Vals, b \in Vals}

BadForceSessions ==
    {Bad1(e) : e \in BadValues} \cup {Bad2(a, b) : a \in Vals, b \in Vals}
    \cup {Bad3(a, b) : a \in Vals, b \in Vals} \cup {Bad4(a, b) : a \in Vals, b \in Vals}
    \cup {Bad5(a, b) : a \in Vals, b \in Vals}

\* ---- and / or ----
\* (not 1)
NotOp ==
    L(<<Sym("not"), Integer(1)>>)

\* (+ 1 2)
SumOp ==
    L(<<Sym("+"), Integer(1), Integer(2)>>)

\* (error)
ErrOp ==
    L(<<Sym("error")>>)

\* (and 1 2 3)
AndExample1 ==
    <<L(<<Sym("and"), Integer(1), Integer(2), Integer(3)>>)>>

\* (and 1 #f (/ 1 0))
AndExample2 ==
    <<L(<<Sym("and"), Integer(1), Bool(FALSE), L(<<Sym("/"), Integer(1),
        Integer(0)>>)>>)>>

\* (or #f 0 (/ 1 0))
OrExample ==
    <<L(<<Sym("or"), Bool(FALSE), Integer(0), L(<<Sym("/"), Integer(1),
        Integer(0)>>)>>)>>


\* the operands of the and / or forms: false and true atoms, a call that
\* returns false, one that returns a true value, one that raises
Operands == {Bool(FALSE), Integer(0), NotOp, SumOp, ErrOp}

\* the operand lists of at most MaxOperands operands
OperandSeqs == UNION {[1..n -> Operands] : n \in 0..MaxOperands}

\* (and e1 ... en) or (or e1 ... en)
AndOrForm(word, ops) == Pair(Sym(word), L(ops))

AndOrSessions ==
    {<<AndOrForm(word, ops)>> : word \in {"and", "or"}, ops \in OperandSeqs}
    \cup {AndExample1, AndExample2, OrExample}

\* ---- formals ----
\* (lambda (x x) x)
DupLambda ==
    L(<<Sym("lambda"), L(<<Sym("x"), Sym("x")>>), Sym("x")>>)

\* (lambda (x 1) x)
NumLambda ==
    L(<<Sym("lambda"), L(<<Sym("x"), Integer(1)>>), Sym("x")>>)

\* (mu (x x) x)
DupMu ==
    L(<<Sym("mu"), L(<<Sym("x"), Sym("x")>>), Sym("x")>>)

\* (define (f x x) x)
DupDefine ==
    L(<<Sym("define"), L(<<Sym("f"), Sym("x"), Sym("x")>>), Sym("x")>>)

\* (define-macro (m x x) x)
DupMacro ==
    L(<<Sym("define-macro"), L(<<Sym("m"), Sym("x"), Sym("x")>>), Sym("x")>>)

\* (let ((x 1) (x 2)) x)
DupLet ==
    L(<<Sym("let"), L(<<L(<<Sym("x"), Integer(1)>>), L(<<Sym("x"), Integer(2)>>)>>),
      Sym("x")>>)

\* (let ((1 2)) 1)
NumLet ==
    L(<<Sym("let"), L(<<L(<<Integer(1), Integer(2)>>)>>), Integer(1)>>)

\* (let x 1)
SymLet ==
    L(<<Sym("let"), Sym("x"), Integer(1)>>)

\* (lambda x x)
SymLambda ==
    L(<<Sym("lambda"), Sym("x"), Sym("x")>>)

\* (lambda 5 1)
IntLambda ==
    L(<<Sym("lambda"), Integer(5), Integer(1)>>)

\* (mu x x)
SymMu ==
    L(<<Sym("mu"), Sym("x"), Sym("x")>>)

\* (lambda (x y) x)
GoodLambda ==
    L(<<Sym("lambda"), L(<<Sym("x"), Sym("y")>>), Sym("x")>>)

\* (let ((x 1) (y 2)) y)
GoodLet ==
    L(<<Sym("let"), L(<<L(<<Sym("x"), Integer(1)>>), L(<<Sym("y"), Integer(2)>>)>>),
      Sym("y")>>)

\* (define g (lambda x x))
\* (g a)
Frm2(a, b) ==
    <<L(<<Sym("define"), Sym("g"), L(<<Sym("lambda"), Sym("x"), Sym("x")>>)>>),
      L(<<Sym("g"), Integer(a)>>)>>


\* forms whose formals are not a proper list of distinct symbols
BadFormalsForms ==
    {DupLambda, NumLambda, DupMu, DupDefine, DupMacro, DupLet, NumLet, SymLet,
     SymLambda, IntLambda, SymMu}

FormalsSessions ==
    {<<form>> : form \in BadFormalsForms \cup {GoodLambda, GoodLet}}
    \cup {Frm2(a, b) : a \in Vals, b \in {1}}

\* ---- failures ----
\* (car 1)
FailType ==
    L(<<Sym("car"), Integer(1)>>)

\* (/ 1 0)
FailDiv ==
    L(<<Sym("/"), Integer(1), Integer(0)>>)

\* (car)
FailArity ==
    L(<<Sym("car")>>)

\* (map (lambda (v) y) (list 1))
FailCallback ==
    L(<<Sym("map"), L(<<Sym("lambda"), L(<<Sym("v")>>), Sym("y")>>), L(<<Sym("list"),
      Integer(1)>>)>>)

\* (apply car (list 1))
FailApply ==
    L(<<Sym("apply"), Sym("car"), L(<<Sym("list"), Integer(1)>>)>>)

\* (eval (quote y))
FailEval ==
    L(<<Sym("eval"), L(<<Sym("quote"), Sym("y")>>)>>)

\* (error (quote boom))
FailError ==
    L(<<Sym("error"), L(<<Sym("quote"), Sym("boom")>>)>>)

\* y
FailUnbound ==
    Sym("y")

\* (1 2)
FailNotCallable ==
    L(<<Integer(1), Integer(2)>>)

\* (if)
FailShape ==
    L(<<Sym("if")>>)

\* (define y (car 1))
FailDefineNew ==
    L(<<Sym("define"), Sym("y"), L(<<Sym("car"), Integer(1)>>)>>)

\* (define x (/ 1 0))
FailDefineOld ==
    L(<<Sym("define"), Sym("x"), L(<<Sym("/"), Integer(1), Integer(0)>>)>>)

\* (define (f v v) 1)
FailDefineFormals ==
    L(<<Sym("define"), L(<<Sym("f"), Sym("v"), Sym("v")>>), Integer(1)>>)

\* (define x y)
FailDefineUnbound ==
    L(<<Sym("define"), Sym("x"), Sym("y")>>)

\* (begin (define w 2) (car 1))
FailAfterDefine ==
    L(<<Sym("begin"), L(<<Sym("define"), Sym("w"), Integer(2)>>), L(<<Sym("car"),
      Integer(1)>>)>>)

\* the expressions whose evaluation fails inside a built-in procedure
BuiltinFailures ==
    {FailType, FailDiv, FailArity, FailCallback, FailApply, FailEval, FailError}

FailingExprs ==
    BuiltinFailures \cup {FailUnbound, FailNotCallable, FailShape, FailDefineNew,
                           FailDefineOld, FailDefineFormals, FailDefineUnbound,
                           FailAfterDefine}

\* (define x a)
\* e
\* x
\* (define z b)
\* z
ErrSession(e, a, b) ==
    <<L(<<Sym("define"), Sym("x"), Integer(a)>>),
      e,
      Sym("x"),
      L(<<Sym("define"), Sym("z"), Integer(b)>>),
      Sym("z")>>

\* (define x a)
\* (exit)
\* x
ExitSession(a) ==
    <<L(<<Sym("define"), Sym("x"), Integer(a)>>),
      L(<<Sym("exit")>>),
      Sym("x")>>

ErrorSessions ==
    {ErrSession(e, a, b) : e \in FailingExprs, a \in Vals, b \in {1}}
    \cup {ExitSession(a) : a \in Vals}

\* ---- define and shadowing ----
\* (define x a)
\* (define (f) (define x b) x)
\* (f)
\* x
Shd1(a, b) ==
    <<L(<<Sym("define"), Sym("x"), Integer(a)>>),
      L(<<Sym("define"), L(<<Sym("f")>>), L(<<Sym("define"), Sym("x"), Integer(b)>>),
        Sym("x")>>),
      L(<<Sym("f")>>),
      Sym("x")>>

\* (define x a)
\* (let ((y 1)) (define x b) x)
\* x
Shd2(a, b) ==
    <<L(<<Sym("define"), Sym("x"), Integer(a)>>),
      L(<<Sym("let"), L(<<L(<<Sym("y"), Integer(1)>>)>>), L(<<Sym("define"),
        Sym("x"), Integer(b)>>), Sym("x")>>),
      Sym("x")>>

\* (define x a)
\* (define y a)
\* (define x b)
\* x
\* y
Shd3(a, b) ==
    <<L(<<Sym("define"), Sym("x"), Integer(a)>>),
      L(<<Sym("define"), Sym("y"), Integer(a)>>),
      L(<<Sym("define"), Sym("x"), Integer(b)>>),
      Sym("x"),
      Sym("y")>>

\* (define x a)
\* (define (g x) (define x b) x)
\* (g a)
\* x
Shd4(a, b) ==
    <<L(<<Sym("define"), Sym("x"), Integer(a)>>),
      L(<<Sym("define"), L(<<Sym("g"), Sym("x")>>), L(<<Sym("define"), Sym("x"),
        Integer(b)>>), Sym("x")>>),
      L(<<Sym("g"), Integer(a)>>),
      Sym("x")>>

\* (define x a)
\* (define (f) (define (h) (define x b) x) (h))
\* (f)
\* x
Shd5(a, b) ==
    <<L(<<Sym("define"), Sym("x"), Integer(a)>>),
      L(<<Sym("define"), L(<<Sym("f")>>), L(<<Sym("define"), L(<<Sym("h")>>),
        L(<<Sym("define"), Sym("x"), Integer(b)>>), Sym("x")>>), L(<<Sym("h")>>)>>),
      L(<<Sym("f")>>),
      Sym("x")>>

\* (define m (mu () (define x b) x))
\* (define (f x) (m))
\* (f a)
\* x
Shd6(a, b) ==
    <<L(<<Sym("define"), Sym("m"), L(<<Sym("mu"), nil, L(<<Sym("define"), Sym("x"),
        Integer(b)>>), Sym("x")>>)>>),
      L(<<Sym("define"), L(<<Sym("f"), Sym("x")>>), L(<<Sym("m")>>)>>),
      L(<<Sym("f"), Integer(a)>>),
      Sym("x")>>

ShadowSessions ==
    UNION {{Shd1(a, b), Shd2(a, b), Shd3(a, b), Shd4(a, b), Shd5(a, b), Shd6(a, b)} :
              a \in Vals, b \in Vals}

\* ---- number of arguments ----
\* the names of the formals, and the i-th argument expression
FormalNames == <<"a", "b", "c", "d", "e">>
FormalSyms(k) == [i \in 1..k |-> Sym(FormalNames[i])]
ArgExprs(n) == [i \in 1..n |-> Integer(i)]

\* (list a b ...): the body of the procedures called
ArityBody(k) == Pair(Sym("list"), L(FormalSyms(k)))

\* ((lambda (a b ...) (list a b ...)) 1 2 ...), or the same with mu: k formals,
\* n arguments
ArityCall(word, k, n) ==
    Pair(L(<<Sym(word), L(FormalSyms(k)), ArityBody(k)>>), L(ArgExprs(n)))

ArityWords == {"lambda", "mu"}

AritySessions ==
    {<<ArityCall(word, k, n)>> : word \in ArityWords, k \in 0..MaxFormals,
                                 n \in 0..MaxFormals}

\* ---- quasiquote ----
Unq(e) == L(<<Sym("unquote"), e>>)
Qq(e) == L(<<Sym("quasiquote"), e>>)

\* the elements of the quasiquoted lists: atoms, unquotes, and nested
\* quasiquotes over atoms, unquotes and doubled unquotes
QqPlain == {Integer(1), Sym("y"), Unq(Sym("x")), Unq(SumOp)}
QqElems ==
    QqPlain \cup {Qq(e) : e \in QqPlain}
    \cup {Qq(Unq(Unq(Sym("x")))), Qq(L(<<Integer(1), Unq(Unq(SumOp))>>))}

\* `(1 ,(+ 2 3) 4)
QqExample == L(<<Integer(1), Unq(L(<<Sym("+"), Integer(2), Integer(3)>>)), Integer(4)>>)
\* (y . ,x)
QqDotted == Pair(Sym("y"), Unq(Sym("x")))

QqForms ==
    UNION {{L(items) : items \in [1..n -> QqElems]} : n \in 1..MaxItems}
    \cup QqElems \cup {QqExample, QqDotted}

\* (define x 2) ; (quasiquote form)
QqSession(form) == <<L(<<Sym("define"), Sym("x"), Integer(2)>>), Qq(form)>>

QuasiquoteSessions == {QqSession(form) : form \in QqForms}

\* ---- filter ----
\* the elements of the filtered lists: numbers, 0 among them, and booleans
FilterItems == {Integer(0), Integer(1), Bool(FALSE), Bool(TRUE)}
FilterLists == UNION {[1..n -> FilterItems] : n \in 1..MaxItems}

\* (define (f x) x) ; (filter f (list item ...))
FilterSession(items) ==
    <<L(<<Sym("define"), L(<<Sym("f"), Sym("x")>>), Sym("x")>>),
      L(<<Sym("filter"), Sym("f"), L(<<Sym("list")>> \o items)>>)>>

FilterSessions == {FilterSession(items) : items \in FilterLists}

\* ---- cond ----
\* the tests of the clauses: false, two true values and else
CondTests == {Bool(FALSE), Bool(TRUE), Integer(0), Sym("else")}
CondTestSeqs == UNION {[1..n -> CondTests] : n \in 1..MaxClauses}

\* (cond (t1 1) (t2 2) ...): clause i has test ts[i] and the body i
CondForm(ts) ==
    Pair(Sym("cond"), L([i \in 1..Len(ts) |-> L(<<ts[i], Integer(i)>>)]))

\* (cond (#f 1) (else))
CondElseOnly == L(<<Sym("cond"), L(<<Bool(FALSE), Integer(1)>>), L(<<Sym("else")>>)>>)

CondSessions == {<<CondForm(ts)>> : ts \in CondTestSeqs} \cup {<<CondElseOnly>>}

Sessions ==
    LexicalSessions \cup DynamicSessions \cup TailSessions \cup NonTailSessions
    \cup ThunkSessions \cup MacroSessions \cup PromiseSessions \cup StreamSessions
    \cup BadForceSessions \cup AndOrSessions \cup FormalsSessions
    \cup CondSessions \cup ErrorSessions \cup ShadowSessions \cup AritySessions
    \cup QuasiquoteSessions \cup MacroTailSessions \cup FilterSessions

(***************************************************************************)
(* read_eval_print_loop: one action per way an iteration of the loop ends. *)
(***************************************************************************)
Init ==
    /\ frames = <<create_global_frame>>
    /\ promises = <<>>
    /\ session \in Sessions
    /\ pos = 0
    /\ status = "running"
    /\ results = <<>>

Reading == status = "running" /\ pos < Len(session)

\* the expression evaluates to a value, which is printed unless it is None
ReplValue ==
    /\ Reading
    /\ \E r \in {Evaluate(session[pos + 1])} :
          /\ r.k # "exc"
          /\ frames' = r.st.frames
          /\ promises' = r.st.promises
          /\ results' = Append(results, Outcome(session[pos + 1], r,
                                  IF r.v.t = "none" THEN "" ELSE "value"))
    /\ pos' = pos + 1
    /\ UNCHANGED <<session, status>>

\* the evaluation raises an exception the loop catches: it prints
\* "Error: ..." and goes on
ReplError ==
    /\ Reading
    /\ \E r \in {Evaluate(session[pos + 1])} :
          /\ r.k = "exc"
          /\ Caught(r)
          /\ frames' = r.st.frames
          /\ promises' = r.st.promises
          /\ results' = Append(results, Outcome(session[pos + 1], r, "Error"))
    /\ pos' = pos + 1
    /\ UNCHANGED <<session, status>>

\* the evaluation raises an exception the loop does not survive: an EOFError
\* makes read_eval_print_loop return, an exception no except clause names
\* leaves it
ReplCrash ==
    /\ Reading
    /\ \E r \in {Evaluate(session[pos + 1])} :
          /\ r.k = "exc"
          /\ ~Caught(r)
          /\ frames' = r.st.frames
          /\ promises' = r.st.promises
          /\ results' = Append(results, Outcome(session[pos + 1], r, ""))
          \* except EOFError: print(); return
          /\ status' = IF r.cls = "EOFError" THEN "returned" ELSE "crashed"
    /\ pos' = pos + 1
    /\ UNCHANGED session

\* next_line raises EOFError at the end of the input: the loop returns
ReplEOF ==
    /\ status = "running"
    /\ pos = Len(session)
    /\ status' = "returned"
    /\ UNCHANGED <<frames, promises, session, pos, results>>

Next == ReplValue \/ ReplError \/ ReplCrash \/ ReplEOF

Spec == Init /\ [][Next]_vars

(***************************************************************************)
(* Observations on the recorded evaluations.                               *)
(***************************************************************************)
\* only the deep non-tail recursions and the long loops made through a
\* macro reach the host recursion limit: what every other session does is
\* what it does under any larger limit
DepthSuffices ==
    \A i \in 1..Len(results) :
        results[i].limit =>
            \/ session \in NonTailSessions /\ results[i].expr = RecCall(MaxDepth + 1)
            \/ session \in MacroTailSessions /\ results[i].expr = LoopCall(MaxDepth + 1)

Steps == 1..Len(results)
Events(i) == 1..Len(results[i].trace)
Ev(i, j) == results[i].trace[j]

Returned(i, v) == results[i].k = "val" /\ results[i].v = v
Failed(i, cls) == results[i].k = "exc" /\ results[i].cls = cls

IsCallOf(e, name) == e.t = "pair" /\ e.first.t = "sym" /\ e.first.s = name

\* the frame the call recorded by the apply event j of step i evaluated
\* the body in
CallFrame(i, j) == frames[Ev(i, j).v.fid]

\* the body of the procedure applied at event j starts being evaluated in
\* the frame made for the call
BodyEvaluatedInCallFrame(i, j) ==
    \E k \in Events(i) :
        /\ k > j
        /\ Ev(i, k).ev = "eval"
        /\ Ev(i, k).a = BodyOf(Ev(i, j).a).first
        /\ Ev(i, k).b = Ev(i, j).v

(***************************************************************************)
(* C1: a call of a lambda procedure evaluates the body in a new frame      *)
(* whose parent is the frame the lambda / define form was evaluated in,    *)
(* whatever the environment of the call; a free variable of the body is    *)
(* looked up by name at call time through that chain, so a redefinition    *)
(* made in the defining frame after the procedure was created is seen      *)
(* (Lex1, Lex6) and a binding of the name in the caller's frame is not     *)
(* (Lex3, Lex4, Lex5).                                                     *)
(***************************************************************************)
C1_LexicalScope ==
    /\ \A i \in Steps : \A j \in Events(i) :
          (Ev(i, j).ev = "apply" /\ Ev(i, j).a.t = "lambda") =>
              /\ CallFrame(i, j).parent = Ev(i, j).a.env
              /\ (session \in LexicalSessions => BodyEvaluatedInCallFrame(i, j))
    /\ \A a \in Vals, b \in Vals :
          /\ (session = Lex1(a, b) /\ pos = 4) => Returned(4, Integer(b))
          /\ (session = Lex2(a, b) /\ pos = 1) => Returned(1, Integer(a))
          /\ (session = Lex3(a, b) /\ pos = 4) => Returned(4, Integer(a))
          /\ (session = Lex4(a, b) /\ pos = 4) => Returned(4, Integer(a))
          /\ (session = Lex5(a, b) /\ pos = 4) => Returned(4, Integer(a))
          /\ (session = Lex6(a, b) /\ pos = 2) => Returned(2, Integer(b))

\* a procedure is called from a frame that binds its free variable to
\* another value than the defining frame does, and the call has returned
C1_Witness ==
    \E a \in Vals, b \in Vals :
        /\ a # b
        /\ session = Lex3(a, b)
        /\ pos = 4
        /\ Returned(4, Integer(a))
        /\ \E j \in Events(4) : Ev(4, j).ev = "apply" /\ Ev(4, j).b # Ev(4, j).a.env

(***************************************************************************)
(* C2: a call of a mu procedure evaluates the body in a new frame whose    *)
(* parent is the environment of the call, not the one the mu form was      *)
(* evaluated in, also when the call is the tail call of the calling        *)
(* procedure and is made later by the trampoline.                          *)
(***************************************************************************)
\* the call expression (m) of the dynamic sessions
MuCall == L(<<Sym("m")>>)

\* the environment in which the call expression that led to the apply
\* event j was evaluated: that of the latest evaluation of (m) before j
EnvOfCall(i, j) ==
    LET ks == {k \in Events(i) : k < j /\ Ev(i, k).ev = "eval" /\ Ev(i, k).a = MuCall}
        k == CHOOSE x \in ks : \A y \in ks : y <= x
    IN Ev(i, k).b

C2_DynamicScope ==
    /\ \A i \in Steps : \A j \in Events(i) :
          (Ev(i, j).ev = "apply" /\ Ev(i, j).a.t = "mu") =>
              /\ CallFrame(i, j).parent = Ev(i, j).b
              /\ (session \in DynamicSessions =>
                     /\ CallFrame(i, j).parent = EnvOfCall(i, j)
                     /\ BodyEvaluatedInCallFrame(i, j))
    /\ \A a \in Vals, b \in Vals :
          /\ (session = Dyn1(a, b) /\ pos = 3) => Returned(3, Integer(b))
          /\ (session = Dyn2(a, b) /\ pos = 4) => Returned(4, Integer(b))
          /\ (session = Dyn3(a, b) /\ pos = 4) => Returned(4, Integer(b))
          /\ (session = Dyn4(a, b) /\ pos = 3) => Returned(3, Integer(b))
          /\ (session = Dyn5(a, b) /\ pos = 4) => Returned(4, Integer(b))
          /\ (session = Dyn6(a, b) /\ pos >= 2) => Failed(2, "lispError")
          /\ (session = Dyn6(a, b) /\ pos = 4) => Returned(4, Integer(a))

\* a mu procedure made where x is a is the tail call of a procedure whose
\* frame binds x to b: the thunk is run by the trampoline, at the depth of
\* the call of f, and the body sees b
C2_Witness ==
    \E a \in Vals, b \in Vals :
        /\ a # b
        /\ session = Dyn4(a, b)
        /\ pos = 3
        /\ Returned(3, Integer(b))
        /\ \E j \in Events(3) :
              Ev(3, j).ev = "eval" /\ Ev(3, j).a = MuCall /\ Ev(3, j).d = 1

(***************************************************************************)
(* C3: in a chain of user-procedure calls each made in a tail position     *)
(* the nesting of activations of the evaluator does not grow with the      *)
(* length of the chain: every call of the chain is evaluated by the same   *)
(* trampoline loop, after the activation that returned its thunk ended.    *)
(***************************************************************************)
\* the evaluations of a call of loop during step i
LoopCalls(i) == {j \in Events(i) : Ev(i, j).ev = "eval" /\ IsCallOf(Ev(i, j).a, "loop")}

C3_TailCallsBounded ==
    \A def \in LoopDefs, n \in LoopCounts :
        (session = TailSession(def, n) /\ pos = 3 /\ n >= 1) =>
            /\ results[3].k = "val"
            /\ results[3].maxd = results[2].maxd
            /\ Cardinality(LoopCalls(3)) = n + 1
            /\ \A j \in LoopCalls(3) : Ev(3, j).d = 1

\* a chain of tail calls longer than the host recursion limit has run to
\* its end
C3_Witness ==
    /\ session = TailSession(LoopIf, MaxDepth + 1)
    /\ pos = 3
    /\ results[3].k = "val"
    /\ Cardinality(LoopCalls(3)) = MaxDepth + 2

(***************************************************************************)
(* C4: what the evaluator returns when called with tail=false, and what    *)
(* complete_apply returns, is never a Thunk: no Thunk is printed by the    *)
(* loop, bound in a frame, stored in a pair, memoized in a promise, handed *)
(* to a built-in, or tested by a special form to decide what to evaluate   *)
(* next (if, cond, an operand of and / or before the last; the last        *)
(* operand of and / or is in tail position and is returned whatever the    *)
(* test of it says).                                                       *)
(***************************************************************************)
RECURSIVE HasThunk(_)
HasThunk(v) ==
    \/ v.t = "thunk"
    \/ v.t = "pair" /\ (HasThunk(v.first) \/ HasThunk(v.second))

\* the expression (id x), the tail call of f
IdCall == L(<<Sym("id"), Sym("x")>>)

MacroApplies(i) == {j \in Events(i) : Ev(i, j).ev = "apply" /\ Ev(i, j).a.t = "macro"}

\* the event at which the application begun at the apply event j returned
\* the expansion
ExpansionOf(i, j) ==
    CHOOSE c \in Events(i) :
        /\ c > j
        /\ Ev(i, c).ev = "complete_apply"
        /\ Ev(i, c).a = Ev(i, j).a
        /\ \A x \in Events(i) :
              (x > j /\ x < c) => ~(Ev(i, x).ev = "complete_apply" /\ Ev(i, x).a = Ev(i, j).a)

\* the returns, after event c, of activations of the evaluator at depth d
ReturnsAfter(i, c, d) == {k \in Events(i) : k > c /\ Ev(i, k).ev = "ret" /\ Ev(i, k).d = d}

\* the bindings of a frame made for formals and the values vals
BindingsOf(formals, vals) ==
    [x \in {ListToSeq(formals)[n].s : n \in 1..PairLen(formals)} |->
        LET n == CHOOSE m \in 1..PairLen(formals) : ListToSeq(formals)[m].s = x
        IN ListToSeq(vals)[n]]

\* the macro call whose head was evaluated just before the apply event j:
\* the combination, its head (a symbol), the value of the head, the apply
MacroCallAt(i, j) ==
    /\ j > 3
    /\ Ev(i, j - 3).ev = "eval" /\ Ev(i, j - 3).a.t = "pair"
    /\ Ev(i, j - 2) = Event("eval", Ev(i, j - 3).a.first, Ev(i, j - 3).b,
                            Ev(i, j - 3).d + 1, None)
    /\ Ev(i, j - 1) = Event("ret", Ev(i, j - 3).a.first, Ev(i, j - 3).b,
                            Ev(i, j - 3).d + 1, Ev(i, j).a)

C5_MacroExpansion ==
    /\ \A i \in Steps : \A j \in MacroApplies(i) :
          session \in MacroSessions =>
              LET call == Ev(i, j - 3)
                  c == ExpansionOf(i, j)
              IN /\ MacroCallAt(i, j)
                 /\ Ev(i, j).b = call.b
                 /\ CallFrame(i, j).parent = Ev(i, j).a.env
                 /\ CallFrame(i, j).bindings =
                        BindingsOf(Ev(i, j).a.formals, call.a.second)
                 /\ BodyEvaluatedInCallFrame(i, j)
                 /\ Ev(i, c).b = call.a.second
                 /\ Ev(i, c + 1) = Event("eval", Ev(i, c).v, call.b, call.d + 1, None)
                 /\ Cardinality(ReturnsAfter(i, c, call.d + 1)) = 1
                 /\ \A k \in ReturnsAfter(i, c, call.d + 1) :
                       /\ Ev(i, k).a = Ev(i, c).v
                       /\ Ev(i, k).b = call.b
                       /\ results[i].k = "val" /\ results[i].v = Ev(i, k).v
    /\ \A a \in Vals, b \in Vals :
          /\ (session = Mac1(a, b) /\ pos = 2) =>
                 Returned(2, L(<<Sym("+"), Integer(a), Integer(b)>>))
          /\ (session = Mac2(a, b) /\ pos = 2) => Returned(2, Integer(a))
          /\ (session = Mac3(a, b) /\ pos = 4) => Returned(4, Integer(a))
          /\ (session = Mac4(a, b) /\ pos = 2) =>
                 /\ Returned(2, None)
                 /\ results[2].out = <<[s |-> "", v |-> Integer(a)],
                                       [s |-> "", v |-> Integer(a)]>>
          /\ (session = Mac5(a, b) /\ pos = 4) => Returned(4, Integer(a))
          /\ (session = Mac6(a, b) /\ pos = 2) => Returned(2, Integer(a + 1 + b * 2))

\* a macro has been applied to an operand whose evaluation raises, and the
\* call returned the value of the other operand
C5_Witness ==
    \E a \in Vals, b \in Vals :
        /\ session = Mac2(a, b)
        /\ pos = 2
        /\ Returned(2, Integer(a))
        /\ MacroApplies(2) # {}

(***************************************************************************)
(* C6: over any sequence of operations the captured expression of a        *)
(* promise is successfully evaluated at most once (so a side effect of it  *)
(* happens at most once): every force after a successful one returns the   *)
(* cached value and evaluates nothing.                                     *)
(***************************************************************************)
C6_EvaluatedAtMostOnce ==
    \A p \in 1..Len(promises) : promises[p].nevals <= 1

(***************************************************************************)
(* C7: (cons-stream a b) evaluates a exactly once in the current           *)
(* environment and does not evaluate b; it returns a pair of the value of  *)
(* a and a not-forced promise over b and the current environment, also     *)
(* when evaluating b would raise; b is evaluated only when the promise is  *)
(* forced, and then in the environment the cons-stream form was evaluated  *)
(* in.                                                                     *)
(***************************************************************************)
\* the evaluations of a cons-stream form during step i
ConsStreamEvals(i) ==
    {j \in Events(i) : Ev(i, j).ev = "eval" /\ IsCallOf(Ev(i, j).a, "cons-stream")}

\* the operands a and b of a cons-stream form
HeadOf(form) == form.second.first
TailOf(form) == form.second.second.first

\* the cons-stream forms evaluated so far
StreamForms == UNION {{Ev(i, j).a : j \in ConsStreamEvals(i)} : i \in Steps}

\* the environments in which a cons-stream form with second operand b has
\* been evaluated
StreamEnvs(b) ==
    UNION {{Ev(i, j).b : j \in {k \in ConsStreamEvals(i) : TailOf(Ev(i, k).a) = b}} :
           i \in Steps}

\* e is the second operand of a cons-stream form evaluated so far
IsStreamTail(e) == \E form \in StreamForms : TailOf(form) = e

\* force or cdr-stream has been called in step i before event k
ForcedBefore(i, k) ==
    \E j \in Events(i) :
        /\ j < k
        /\ Ev(i, j).ev = "builtin"
        /\ Ev(i, j).a.name \in {"force", "cdr-stream"}

\* the outputs of print during step i
Printed(i) == [n \in 1..Len(results[i].out) |-> results[i].out[n].v]

C7_ConsStream ==
    /\ session \in StreamSessions =>
          \A i \in Steps :
              /\ \A j \in ConsStreamEvals(i) :
                    LET form == Ev(i, j).a
                        env == Ev(i, j).b
                        d == Ev(i, j).d
                    IN /\ Cardinality({k \in Events(i) :
                              Ev(i, k) = Event("eval", HeadOf(form), env, d + 1, None)}) = 1
                       /\ ~\E k \in Events(i) :
                              Ev(i, k).ev = "eval" /\ Ev(i, k).a = TailOf(form)
                       /\ results[i].k = "val"
              /\ \A k \in Events(i) :
                    (Ev(i, k).ev = "eval" /\ IsStreamTail(Ev(i, k).a)) =>
                        /\ ForcedBefore(i, k)
                        /\ Ev(i, k).b \in StreamEnvs(Ev(i, k).a)
    /\ \A a \in Vals, b \in Vals :
          /\ (session = Str1(a, b) /\ pos = 1) =>
                 /\ promises = <<NewPromise(L(<<Sym("/"), Integer(b), Integer(0)>>), Global)>>
                 /\ frames[1].bindings["s"] = Pair(Integer(a), PromiseRef(1))
          /\ (session = Str1(a, b) /\ pos = 3) =>
                 /\ Returned(2, Integer(a))
                 /\ Failed(3, "lispError")
                 /\ ~PromiseForced(promises[1])
          /\ (session = Str2(a, b) /\ pos = 2) =>
                 /\ promises = <<NewPromise(L(<<Sym("cons"), Sym("x"), nil>>), FrameRef(2))>>
                 /\ frames[2].bindings["x"] = Integer(a)
                 /\ frames[1].bindings["s"] = Pair(Integer(a), PromiseRef(1))
          /\ (session = Str2(a, b) /\ pos = 5) =>
                 /\ Returned(4, L(<<Integer(a)>>))
                 /\ Returned(5, L(<<Integer(a)>>))
          /\ (session = Str3(a, b) /\ pos = 4) =>
                 /\ Printed(1) = <<Integer(a)>>
                 /\ Printed(2) = <<>>
                 /\ Printed(3) = <<Integer(b)>>
                 /\ Printed(4) = <<>>
                 /\ Returned(2, Integer(a))
                 /\ Returned(3, nil)

\* a stream whose second operand raises when evaluated has been made, its
\* car read, and its tail forced
C7_Witness ==
    \E a \in Vals, b \in Vals :
        /\ session = Str1(a, b)
        /\ pos = 3
        /\ Returned(2, Integer(a))
        /\ Failed(3, "lispError")
        /\ ConsStreamEvals(1) # {}

(***************************************************************************)
(* C8: forcing a promise whose expression evaluates to a value that is     *)
(* neither nil nor a pair raises an interpreter error and leaves the       *)
(* promise not forced: nothing is memoized, and a later force evaluates    *)
(* the expression again.                                                   *)
(***************************************************************************)
\* the evaluations of expression e in the global frame by the activation a
\* force at the top level starts
ForceEvals(i, e) == {k \in Events(i) : Ev(i, k) = Event("eval", e, Global, 2, None)}

C8_BadForce ==
    /\ \A p \in 1..Len(promises) :
          /\ promises[p].hasvalue => promises[p].value.t \in {"nil", "pair"}
          /\ PromiseForced(promises[p]) <=> promises[p].hasvalue
    /\ \A e \in BadValues :
          /\ (session = Bad1(e) /\ pos >= 2) =>
                 /\ Failed(2, "lispError")
                 /\ promises[1] = NewPromise(e, Global)
                 /\ Cardinality(ForceEvals(2, e)) = 1
          /\ (session = Bad1(e) /\ pos >= 3) =>
                 /\ Failed(3, "lispError")
                 /\ Cardinality(ForceEvals(3, e)) = 1
    /\ \A a \in Vals, b \in Vals :
          /\ (session = Bad2(a, b) /\ pos \in {3, 4}) =>
                 /\ Failed(3, "lispError")
                 /\ promises[1] = NewPromise(Sym("v"), Global)
          /\ (session = Bad2(a, b) /\ pos = 6) =>
                 /\ Returned(5, L(<<Integer(b)>>))
                 /\ Cardinality(ForceEvals(5, Sym("v"))) = 1
                 /\ Returned(6, L(<<Integer(b)>>))
                 /\ ForceEvals(6, Sym("v")) = {}
                 /\ PromiseForced(promises[1])
          /\ (session = Bad3(a, b) /\ pos = 3) =>
                 /\ Failed(2, "lispError") /\ Printed(2) = <<Integer(a)>>
                 /\ Failed(3, "lispError") /\ Printed(3) = <<Integer(a)>>
                 /\ ~PromiseForced(promises[1])
          /\ (session = Bad4(a, b) /\ pos = 3) =>
                 /\ Failed(2, "lispError")
                 /\ Failed(3, "lispError")
                 /\ promises[1] = NewPromise(Integer(b), Global)
                 /\ Cardinality(ForceEvals(3, Integer(b))) = 1
          /\ (session = Bad5(a, b) /\ pos = 3) =>
                 /\ Failed(3, "lispError")
                 /\ ~PromiseForced(promises[1])
                 /\ ~promises[1].hasvalue

(***************************************************************************)
(* C9: and evaluates its operands left to right and stops at the first     *)
(* whose value is false, returning false without evaluating a later        *)
(* operand; with no false operand it returns the value of the last one,    *)
(* and (and) is true.  or stops at the first operand whose value is not    *)
(* false, returning that value; with every operand false it returns false, *)
(* and (or) is false.                                                      *)
(***************************************************************************)
\* what the operands do when evaluated, as the language defines it
OperandRaises(e) == e = ErrOp
OperandValue(e) ==
    CASE e = Bool(FALSE) -> Bool(FALSE)
      [] e = Integer(0) -> Integer(0)
      [] e = NotOp -> Bool(FALSE)
      [] e = SumOp -> Integer(3)

\* the operand at which (word e1 ... en) stops: the first that raises or
\* decides the form, else the last
Decides(word, e) ==
    \/ OperandRaises(e)
    \/ word = "and" /\ OperandValue(e) = Bool(FALSE)
    \/ word = "or" /\ OperandValue(e) # Bool(FALSE)

StopAt(word, ops) ==
    IF \E n \in 1..Len(ops) : Decides(word, ops[n])
    THEN CHOOSE n \in 1..Len(ops) :
             Decides(word, ops[n]) /\ \A m \in 1..(n - 1) : ~Decides(word, ops[m])
    ELSE Len(ops)

\* the operands evaluated during step i, in the order of their evaluation
EvaluatedOperands(i) ==
    LET evals == SelectSeq(results[i].trace,
                           LAMBDA e : e.ev = "eval" /\ e.a \in Operands)
    IN [n \in 1..Len(evals) |-> evals[n].a]

C9_ShortCircuit ==
    /\ \A word \in {"and", "or"}, ops \in OperandSeqs :
          (session = <<AndOrForm(word, ops)>> /\ pos = 1) =>
              LET n == StopAt(word, ops)
              IN /\ EvaluatedOperands(1) = SubSeq(ops, 1, n)
                 /\ IF n = 0 THEN Returned(1, Bool(word = "and"))
                    ELSE IF OperandRaises(ops[n]) THEN Failed(1, "lispError")
                    ELSE Returned(1, OperandValue(ops[n]))
    /\ (session = AndExample1 /\ pos = 1) => Returned(1, Integer(3))
    /\ (session = AndExample2 /\ pos = 1) => Returned(1, Bool(FALSE))
    /\ (session = OrExample /\ pos = 1) => Returned(1, Integer(0))

\* an and form has stopped at a false operand that is followed by an
\* operand that raises, after a first operand with the true value 0
C9_Witness ==
    /\ session = <<AndOrForm("and", <<Integer(0), NotOp, ErrOp>>)>>
    /\ pos = 1
    /\ Returned(1, Bool(FALSE))
    /\ EvaluatedOperands(1) = <<Integer(0), NotOp>>

(***************************************************************************)
(* C10: evaluating a lambda, mu, define (procedure form), define-macro or  *)
(* let form raises an interpreter error unless its formals are a proper    *)
(* list of pairwise distinct symbols; so every lambda procedure, mu        *)
(* procedure and macro in a reachable state has formals that are a proper  *)
(* list of distinct symbols.                                               *)
(***************************************************************************)
\* a proper list of pairwise distinct symbols
ValidFormals(formals) ==
    /\ lisp_listp(formals)
    /\ \A n \in 1..PairLen(formals) : lisp_symbolp(ListToSeq(formals)[n])
    /\ \A n \in 1..PairLen(formals), m \in 1..PairLen(formals) :
          ListToSeq(formals)[n] = ListToSeq(formals)[m] => n = m

IsUserProcedure(v) == v.t \in {"lambda", "mu", "macro"}

C10_FormalsChecked ==
    /\ \A form \in BadFormalsForms :
          (session = <<form>> /\ pos = 1) => Failed(1, "lispError")
    /\ \A i \in Steps :
          (results[i].k = "val" /\ IsUserProcedure(results[i].v)) =>
              ValidFormals(FormalsOf(results[i].v))
    /\ \A f \in 1..Len(frames) : \A x \in DOMAIN frames[f].bindings :
          IsUserProcedure(frames[f].bindings[x]) =>
              ValidFormals(FormalsOf(frames[f].bindings[x]))

(***************************************************************************)
(* C11: every cond form in which else is the test of a clause that is not  *)
(* the last clause raises an interpreter error when it is evaluated; else  *)
(* as the test of the last clause is treated as true.                      *)
(***************************************************************************)
\* else is the test of a clause of (cond (ts[1] 1) ...) that is not the last
ElseNotLast(ts) == \E i \in 1..(Len(ts) - 1) : ts[i] = Sym("else")

\* no clause before clause n has a true test
ReachesClause(ts, n) == \A m \in 1..(n - 1) : ts[m] = Bool(FALSE)

C11_ElseMustBeLast ==
    /\ \A ts \in CondTestSeqs :
          (session = <<CondForm(ts)>> /\ pos = 1) =>
              /\ ElseNotLast(ts) => Failed(1, "lispError")
              /\ (~ElseNotLast(ts) /\ ts[Len(ts)] = Sym("else")
                     /\ ReachesClause(ts, Len(ts))) => Returned(1, Integer(Len(ts)))
    /\ (session = <<CondElseOnly>> /\ pos = 1) => Returned(1, Bool(TRUE))

(***************************************************************************)
(* C12: every failure during the evaluation of an expression, a failure    *)
(* inside a built-in procedure included (wrong argument type or count,     *)
(* division by zero, an error raised by a procedure a built-in calls back, *)
(* any host exception), reaches the caller of the eval entry point as a    *)
(* lispError that carries a non-empty message.                             *)
(***************************************************************************)
C12_ErrorsCarryMessage ==
    \A i \in Steps :
        results[i].k = "exc" =>
            /\ results[i].cls = "lispError"
            /\ results[i].msg # ""

(***************************************************************************)
(* C13: evaluating a call of the exit built-in ends the read-eval-print    *)
(* loop as end-of-input does: after (exit) no further input is read or     *)
(* evaluated and read_eval_print_loop returns.                             *)
(***************************************************************************)
C13_ExitEndsLoop ==
    \A a \in Vals :
        (session = ExitSession(a) /\ pos >= 2) =>
            /\ pos = 2
            /\ status = "returned"

(***************************************************************************)
(* C14: when the evaluation of an expression read by the loop raises an    *)
(* interpreter error, the loop prints the error and goes on to read and    *)
(* evaluate the next input; the bindings made in the global frame by       *)
(* defines that completed before the failure stay visible to the inputs    *)
(* that follow, and a define whose value expression (or formals check)     *)
(* raised adds or changes no binding.                                      *)
(***************************************************************************)
\* the global bindings after (define x a) and the failed expression e
GlobalAfter(e, a) ==
    [n \in BuiltinNames \cup {"undefined", "x"}
           \cup (IF e = FailAfterDefine THEN {"w"} ELSE {}) |->
        CASE n = "x" -> Integer(a)
          [] n = "w" -> Integer(2)
          [] n = "undefined" -> None
          [] OTHER -> BuiltinProcedure(n)]

C14_ErrorsResume ==
    \A e \in FailingExprs, a \in Vals, b \in {1} :
        session = ErrSession(e, a, b) =>
            /\ pos \in 2..4 => status = "running"
            /\ pos >= 2 =>
                   /\ Failed(2, "lispError")
                   /\ results[2].printed = "Error"
            /\ pos \in {2, 3} => frames[1].bindings = GlobalAfter(e, a)
            /\ pos >= 3 => Returned(3, Integer(a))
            /\ pos >= 5 => Returned(5, Integer(b))

\* a define of the bound symbol x has failed and the inputs after it were
\* read and evaluated with the old binding of x
C14_Witness ==
    /\ session = ErrSession(FailDefineOld, 2, 1)
    /\ pos = 5
    /\ Failed(2, "lispError")
    /\ Returned(3, Integer(2))
    /\ Returned(5, Integer(1))

(***************************************************************************)
(* C15: over any sequence of define, let and procedure-call operations, a  *)
(* define executed in frame F changes only F's binding of the defined      *)
(* symbol (creating or overwriting it): every other binding of F and every *)
(* binding of every other frame, F's ancestors included, is unchanged,     *)
(* even when an ancestor already binds the same symbol.                    *)
(***************************************************************************)
\* event j of step i records a define form that bound its symbol
IsDefine(i, j) == Ev(i, j).ev = "define"

\* frame g is a proper ancestor of frame f in the frames fs
RECURSIVE IsAncestor(_, _, _)
IsAncestor(fs, g, f) ==
    /\ fs[f].parent.t = "frame"
    /\ (fs[f].parent.fid = g \/ IsAncestor(fs, g, fs[f].parent.fid))

C15_DefineIsLocal ==
    \A i \in Steps : \A j \in Events(i) :
        IsDefine(i, j) =>
            LET F == Ev(i, j).b.fid
                sym == Ev(i, j).a.s
                before == Ev(i, j).v.before
                after == Ev(i, j).v.after
            IN /\ DOMAIN after = DOMAIN before
               /\ \A f \in DOMAIN before : f # F => after[f] = before[f]
               /\ after[F].parent = before[F].parent
               /\ DOMAIN after[F].bindings = DOMAIN before[F].bindings \cup {sym}
               /\ after[F].bindings[sym] = Ev(i, j).v.value
               /\ \A n \in DOMAIN before[F].bindings :
                      n # sym => after[F].bindings[n] = before[F].bindings[n]

\* a define was executed in a frame that did not bind the symbol while an
\* ancestor did, and the ancestor still binds it to the old value
C15_Witness ==
    \E i \in Steps : \E j \in Events(i) :
        /\ IsDefine(i, j)
        /\ Ev(i, j).a.s \notin DOMAIN Ev(i, j).v.before[Ev(i, j).b.fid].bindings
        /\ \E g \in DOMAIN Ev(i, j).v.before :
              /\ IsAncestor(Ev(i, j).v.before, g, Ev(i, j).b.fid)
              /\ Ev(i, j).a.s \in DOMAIN Ev(i, j).v.before[g].bindings
              /\ Ev(i, j).v.after[g].bindings[Ev(i, j).a.s]
                     # Ev(i, j).v.value
              /\ frames[g].bindings[Ev(i, j).a.s]
                     = Ev(i, j).v.before[g].bindings[Ev(i, j).a.s]

(***************************************************************************)
(* C16: applying a lambda or mu procedure to a number of arguments         *)
(* different from its number of formals raises an interpreter error,       *)
(* creates no binding and evaluates no expression of the body; with equal  *)
(* counts the i-th formal is bound to the i-th argument value in the new   *)
(* call frame.                                                             *)
(***************************************************************************)
\* the body of the procedure was evaluated during step i
BodyEvaluated(i, k) ==
    \E j \in Events(i) : Ev(i, j).ev = "eval" /\ Ev(i, j).a = ArityBody(k)

C16_ArgumentCount ==
    \A word \in ArityWords, k \in 0..MaxFormals, n \in 0..MaxFormals :
        (session = <<ArityCall(word, k, n)>> /\ pos = 1) =>
            IF k # n
            THEN /\ Failed(1, "lispError")
                 /\ frames = <<create_global_frame>>
                 /\ ~BodyEvaluated(1, k)
            ELSE /\ Returned(1, L(ArgExprs(n)))
                 /\ Len(frames) = 2
                 /\ frames[2].parent = Global
                 /\ DOMAIN frames[2].bindings = {FormalNames[i] : i \in 1..k}
                 /\ \A i \in 1..k : frames[2].bindings[FormalNames[i]] = Integer(i)
                 /\ BodyEvaluated(1, k)

\* a procedure of two formals was applied to three arguments: the call
\* failed and no frame was made
C16_Witness ==
    /\ session = <<ArityCall("lambda", 2, 3)>>
    /\ pos = 1
    /\ Failed(1, "lispError")
    /\ results[1].msg = "Too many or too few vals are given."
    /\ Len(frames) = 1

(***************************************************************************)
(* C17: (quasiquote x) returns a copy of x in which exactly the            *)
(* (unquote e) sub-forms whose depth matches are replaced by the value of  *)
(* e in the current environment; the depth is 1 at the outer quasiquote,   *)
(* one more inside each nested quasiquote and one less inside each         *)
(* enclosing unquote that was not evaluated.  Every other sub-form, an     *)
(* unquote under a deeper nested quasiquote included, is copied            *)
(* unevaluated, so `(1 ,(+ 2 3) 4) yields (1 5 4).                         *)
(***************************************************************************)
\* the value of the unquoted expressions of the sessions, x being 2
QqValue(e) ==
    CASE e = Sym("x") -> Integer(2)
      [] e = SumOp -> Integer(3)
      [] e = L(<<Sym("+"), Integer(2), Integer(3)>>) -> Integer(5)

\* x with the unquotes that are at depth 1, counted from DEPTH, replaced
RECURSIVE QqCopy(_, _)
QqCopy(x, depth) ==
    CASE x.t # "pair" -> x
      [] IsWord(x.first, "unquote") /\ depth = 1 -> QqValue(x.second.first)
      [] IsWord(x.first, "unquote") -> Pair(x.first, QqCopy(x.second, depth - 1))
      [] IsWord(x.first, "quasiquote") -> Pair(x.first, QqCopy(x.second, depth + 1))
      [] OTHER -> Pair(QqCopy(x.first, depth), QqCopy(x.second, depth))

\* the expressions unquoted at depth 1, counted from DEPTH, left to right
RECURSIVE QqUnquoted(_, _)
QqUnquoted(x, depth) ==
    CASE x.t # "pair" -> <<>>
      [] IsWord(x.first, "unquote") /\ depth = 1 -> <<x.second.first>>
      [] IsWord(x.first, "unquote") -> QqUnquoted(x.second, depth - 1)
      [] IsWord(x.first, "quasiquote") -> QqUnquoted(x.second, depth + 1)
      [] OTHER -> QqUnquoted(x.first, depth) \o QqUnquoted(x.second, depth)

\* the expressions the quasiquote form of step i handed to the evaluator, in
\* order: the evaluations one level below the form's own
QqEvaluated(i) ==
    LET evals == SelectSeq(results[i].trace,
                           LAMBDA e : e.ev = "eval" /\ e.d = 2)
    IN [n \in 1..Len(evals) |-> evals[n].a]

C17_Quasiquote ==
    \A form \in QqForms :
        (session = QqSession(form) /\ pos = 2) =>
            /\ Returned(2, QqCopy(form, 1))
            /\ QqEvaluated(2) = QqUnquoted(form, 1)

\* a list with an unquote under a nested quasiquote, which is copied, and
\* an unquote at depth 1, which is replaced
C17_Witness ==
    /\ session = QqSession(L(<<Qq(Unq(Sym("x"))), Unq(Sym("x"))>>))
    /\ pos = 2
    /\ Returned(2, L(<<Qq(Unq(Sym("x"))), Integer(2)>>))

(***************************************************************************)
(* C18: when the head of a combination is a macro, the evaluation of the   *)
(* macro's result expression is itself a tail call: it is handed back to   *)
(* the trampoline as a thunk and not evaluated by a nested activation of   *)
(* the evaluator, so a loop whose tail call is made through a macro        *)
(* expansion nests the evaluator no deeper however long it is, and every   *)
(* call of the loop is evaluated by the same trampoline loop.              *)
(***************************************************************************)
C18_MacroTailCall ==
    \A n \in LoopCounts :
        (session = MacroTailSession(n) /\ pos = 4 /\ n >= 1) =>
            /\ results[4].k = "val"
            /\ results[4].maxd = results[3].maxd
            /\ \A j \in LoopCalls(4) : Ev(4, j).d = 1

(***************************************************************************)
(* C19: after a successful force a promise is in its cached form: it holds *)
(* the memoized value, the value the force returned, and references        *)
(* neither its captured expression nor its captured environment any more.  *)
(***************************************************************************)
\* the promises forced successfully so far: Promise.evaluate memoized a
\* value in them
ForcedPromises == {q \in 1..Len(promises) : promises[q].nevals > 0}

C19_ForcedPromiseIsCached ==
    \A q \in ForcedPromises :
        /\ promises[q].hasvalue
        /\ promises[q].value.t \in {"nil", "pair"}
        /\ promises[q].expression = None
        /\ promises[q].env = None

(***************************************************************************)
(* C20: (filter pred s) returns, in their original order, exactly the      *)
(* elements x of the proper list s for which the value of (pred x) is      *)
(* true in the language's sense, that is any value other than false, 0     *)
(* included: filter agrees with if, cond, and, or and not on which values  *)
(* count as true.  With the identity as pred the elements kept are those   *)
(* that lisp_truep holds of.                                               *)
(***************************************************************************)
C20_FilterTruthiness ==
    \A items \in FilterLists :
        (session = FilterSession(items) /\ pos = 2) =>
            Returned(2, L(SelectSeq(items, lisp_truep)))

====
